---- MODULE Spec2Model ----
(***************************************************************************)
(* Release catalog and update-query service (SAU / faynoSync).             *)
(*                                                                         *)
(* State: the metadata store (dimension records and releases), the blob    *)
(* store, the cache, and for every request task its position in the        *)
(* handler, its locals and the responses it has written.                   *)
(*                                                                         *)
(* Strings are sequences of tokens, so that building a link, cutting a     *)
(* file extension and trimming a prefix are computed the way the code      *)
(* computes them.                                                          *)
(***************************************************************************)
EXTENDS Integers, Sequences, FiniteSets, TLC

\* ------------------------------------------------------------------ bounds

\* Files in one upload request.
MaxFiles == 2
\* Releases ever created (release identifiers are never reused).
MaxReleases == 2
\* the most dimension records of one kind
MaxDims == 2

\* Request tasks; the sequential specifications use SeqProc only.
Procs == {"t1", "t2"}
SeqProc == "t1"

\* ------------------------------------------------------------------ strings

S3_ENDPOINT == <<"http://s3">>

\* strings.TrimPrefix
TrimPrefix(s, prefix) ==
    IF Len(s) >= Len(prefix) /\ SubSeq(s, 1, Len(prefix)) = prefix
    THEN SubSeq(s, Len(prefix) + 1, Len(s))
    ELSE s

\* strings.Index(s, tok) for a one-token needle: first position (1-based), 0 when absent
Index(s, tok) ==
    IF \E i \in 1..Len(s) : s[i] = tok
    THEN CHOOSE i \in 1..Len(s) : s[i] = tok /\ \A j \in 1..(i - 1) : s[j] # tok
    ELSE 0

\* ------------------------------------------------------------------ versions

V1 == <<"0", ".", "0", ".", "1", ".", "137">>
V2 == <<"0", ".", "0", ".", "2", ".", "137">>
V3 == <<"0", ".", "0", ".", "3", ".", "137">>

\* versions whose order differs between numbers and numerals
V9 == <<"0", ".", "0", ".", "9", ".", "0">>
V10 == <<"0", ".", "0", ".", "10", ".", "0">>
VMinor == <<"0", ".", "1", ".", "0", ".", "0">>

\* versions the regular expression accepts that are not four integers
VShort == <<"0", ".", "0", ".", "1">>
VGap == <<"1", ".", ".", "2", ".", "3">>
VDash == <<"1", "-", "2">>
VDots == <<".", ".", ".", ".">>

\* decimal numerals the model uses, with their values
NumVal == [n \in {"0", "1", "2", "3", "9", "10", "137"} |->
             CASE n = "0" -> 0 [] n = "1" -> 1 [] n = "2" -> 2 [] n = "3" -> 3
               [] n = "9" -> 9 [] n = "10" -> 10 [] n = "137" -> 137]

\* utils.IsValidInputVersion: ^[0-9.-]+$
IsValidInputVersion(input) ==
    /\ Len(input) > 0
    /\ \A i \in 1..Len(input) : input[i] \in (DOMAIN NumVal) \cup {".", "-"}

\* split on "." : the sequence of the tokens between the dots (<<>> for an empty field)
RECURSIVE SplitDots(_)
SplitDots(s) ==
    LET d == Index(s, ".")
    IN  IF d = 0 THEN <<s>>
        ELSE <<SubSeq(s, 1, d - 1)>> \o SplitDots(SubSeq(s, d + 1, Len(s)))

\* four non-negative decimal integers, or <<>> when ill-formed
ParseVersion(s) ==
    LET parts == SplitDots(s)
    IN  IF /\ Len(parts) = 4
           /\ \A i \in 1..4 : Len(parts[i]) = 1 /\ parts[i][1] \in DOMAIN NumVal
        THEN [i \in 1..4 |-> NumVal[parts[i][1]]]
        ELSE <<>>

\* VersionLess ordering the components as numerals, by their leading digit first
VersionLessByNumeral(a, b) ==
    LET lead(n) == IF n < 10 THEN n ELSE IF n < 100 THEN n \div 10 ELSE n \div 100
        less(m, n) == lead(m) < lead(n) \/ (lead(m) = lead(n) /\ m < n)
    IN  \E i \in 1..4 : less(a[i], b[i]) /\ \A j \in 1..(i - 1) : a[j] = b[j]

\* component-by-component comparison of two parsed versions
VersionLess(a, b) ==
    \E i \in 1..4 : a[i] < b[i] /\ \A j \in 1..(i - 1) : a[j] = b[j]

StrVersionLess(s, t) == VersionLess(ParseVersion(s), ParseVersion(t))

\* ------------------------------------------------------------------ inputs

AppNames == {"testapp"}
ChannelNames == {"nightly"}
PlatformNames == {"p1", "p2"}
ArchNames == {"x1"}
Versions == {V1, V2, V3}

FileDmg == <<"testapp", ".", "dmg">>
FilePkg == <<"testapp", ".", "pkg">>
FileNoExt == <<"LICENSE">>
FileSetup == <<"setup", ".", "dmg">>

\* ------------------------------------------------------------------ state

VARIABLES
    dims,             \* metadata store: kind -> dimension names in creation order
    releases,         \* metadata store: set of release records
    nextId,           \* next release identifier the store hands out
    blobs,            \* blob store: object key -> content (the uploaded file)
    cache,            \* cache: key -> the Check answer stored under it
    performanceMode,  \* the handler's performanceMode flag (cache configured)
    faults,           \* environment: store calls may fail with an I/O error
    storeFailed,      \* history: some store call has failed with an I/O error
    slackEnable,      \* configuration: SLACK_ENABLE
    notes,            \* the detached notification tasks and how far each has got
    pc,               \* task -> position in its handler
    req,              \* task -> the request it handles
    work,             \* task -> the handler's locals
    resp              \* task -> the responses the handler has written (c.JSON calls)

storeVars == <<dims, releases, nextId, blobs, cache, performanceMode, faults,
               slackEnable, notes>>
taskVars == <<pc, req, work, resp>>
vars == <<dims, releases, nextId, blobs, cache, performanceMode, faults, storeFailed,
          slackEnable, notes, pc, req, work, resp>>

Kinds == {"app", "channel", "platform", "arch"}

NoRequest == [kind |-> "none"]
EmptyWork == [links |-> <<>>, extensions |-> <<>>, results |-> <<>>,
              pending |-> {}, deleted |-> {}, count |-> 0,
              keys |-> {}, failed |-> {}, fault |-> "none"]

\* the locals after the handler returned on a failed store call
FailedWork(call) == [EmptyWork EXCEPT !.fault = call]

Response(status, body) == [status |-> status, body |-> body]

Idle(p) == pc[p] \in {"idle", "done"}
AllIdle == \A q \in Procs : Idle(q)

\* ------------------------------------------------------------------ metadata store

DupArtifactMsg == <<"app with this name, version, and extension already exists">>
MetadataErrMsg == <<"metadata store error">>
NotFoundMsg == <<"Not found">>
NewerMsg(version) ==
    <<"requested version">> \o version \o <<"is newer than the latest version available">>
BadVersionMsg == <<"invalid version">>
NoError == <<>>

ReleaseKey(r) == <<r.app_name, r.version, r.channel>>

\* the artifacts of a release, as a set
Artifacts(r) == {r.artifacts[i] : i \in 1..Len(r.artifacts)}

MatchingArtifacts(r, platform, arch) ==
    {a \in Artifacts(r) : a.platform = platform /\ a.arch = arch}

\* list(kind), as a set of names
DimNames(d, kind) == {d[kind][i] : i \in 1..Len(d[kind])}

\* utils.ValidateParams: the reason a request is rejected, or NoError
ValidateParams(d, params, isUpload) ==
    IF params.app_name = "" THEN <<"app_name is required">>
    ELSE IF isUpload /\ params.app_name \notin DimNames(d, "app") THEN <<"app does not exist">>
    ELSE IF ~IsValidInputVersion(params.version) THEN <<"invalid version">>
    ELSE IF DimNames(d, "channel") # {} /\ params.channel = ""
         THEN <<"you have a created channels, setting channel is required">>
    ELSE IF DimNames(d, "platform") # {} /\ params.platform = ""
         THEN <<"you have a created platforms, setting platform is required">>
    ELSE IF DimNames(d, "arch") # {} /\ params.arch = ""
         THEN <<"you have a created archs, setting arch is required">>
    ELSE IF params.channel # "" /\ params.channel \notin DimNames(d, "channel")
         THEN <<"channel does not exist">>
    ELSE IF params.platform # "" /\ params.platform \notin DimNames(d, "platform")
         THEN <<"platform does not exist">>
    ELSE IF params.arch # "" /\ params.arch \notin DimNames(d, "arch")
         THEN <<"arch does not exist">>
    ELSE NoError

\* RepoUpload without the lookup: every call inserts a new release
RepoUploadAlwaysInsert(rels, nid, params, link, ext) ==
    LET rec == [id |-> nid, app_name |-> params.app_name,
                version |-> params.version, channel |-> params.channel,
                published |-> params.publish, critical |-> params.critical,
                changelog |-> <<[version |-> params.version,
                                 changes |-> params.changelog, date |-> "today"]>>,
                artifacts |-> <<[platform |-> params.platform, arch |-> params.arch,
                                 package |-> ext, link |-> link]>>]
    IN  [err |-> NoError, rels |-> rels \cup {rec}, nid |-> nid + 1, result |-> <<rec>>]

\* repository.Upload appending a changelog entry on every extension of a release
RepoUploadAlwaysAppendEntry(rels, nid, params, link, ext) ==
    LET existing == {r \in rels : ReleaseKey(r) =
                        <<params.app_name, params.version, params.channel>>}
        artifact == [platform |-> params.platform, arch |-> params.arch,
                     package |-> ext, link |-> link]
        entry == [version |-> params.version, changes |-> params.changelog,
                  date |-> "today"]
    IN  IF existing = {}
        THEN LET rec == [id |-> nid, app_name |-> params.app_name,
                         version |-> params.version, channel |-> params.channel,
                         published |-> params.publish, critical |-> params.critical,
                         changelog |-> <<entry>>, artifacts |-> <<artifact>>]
             IN  [err |-> NoError, rels |-> rels \cup {rec}, nid |-> nid + 1,
                  result |-> <<rec>>]
        ELSE LET r == CHOOSE x \in existing : TRUE
             IN  IF \E a \in Artifacts(r) :
                        /\ a.platform = params.platform
                        /\ a.arch = params.arch
                        /\ a.package = ext
                 THEN [err |-> DupArtifactMsg, rels |-> rels, nid |-> nid,
                       result |-> <<>>]
                 ELSE LET rec == [r EXCEPT
                                    !.artifacts = Append(@, artifact),
                                    !.changelog = Append(@, entry)]
                      IN  [err |-> NoError, rels |-> (rels \ {r}) \cup {rec},
                           nid |-> nid, result |-> <<rec>>]

\* repository.Upload: insert-or-extend as one store operation; a version that does
\* not decompose into four integers is refused
RepoUpload(rels, nid, params, link, ext) ==
    LET existing == {r \in rels : ReleaseKey(r) =
                        <<params.app_name, params.version, params.channel>>}
        artifact == [platform |-> params.platform, arch |-> params.arch,
                     package |-> ext, link |-> link]
        entry == [version |-> params.version, changes |-> params.changelog,
                  date |-> "today"]
    IN  IF ParseVersion(params.version) = <<>>
        THEN [err |-> BadVersionMsg, rels |-> rels, nid |-> nid, result |-> <<>>]
        ELSE IF existing = {}
        THEN LET rec == [id |-> nid, app_name |-> params.app_name,
                         version |-> params.version, channel |-> params.channel,
                         published |-> params.publish, critical |-> params.critical,
                         changelog |-> <<entry>>, artifacts |-> <<artifact>>]
             IN  [err |-> NoError, rels |-> rels \cup {rec}, nid |-> nid + 1,
                  result |-> <<rec>>]
        ELSE LET r == CHOOSE x \in existing : TRUE
             IN  IF \E a \in Artifacts(r) :
                        /\ a.platform = params.platform
                        /\ a.arch = params.arch
                        /\ a.package = ext
                 THEN [err |-> DupArtifactMsg, rels |-> rels, nid |-> nid,
                       result |-> <<>>]
                 ELSE LET hasEntry == \E i \in 1..Len(r.changelog) :
                                         r.changelog[i].version = params.version
                          rec == [r EXCEPT
                                    !.artifacts = Append(@, artifact),
                                    !.changelog = IF hasEntry THEN @
                                                  ELSE Append(@, entry)]
                      IN  [err |-> NoError, rels |-> (rels \ {r}) \cup {rec},
                           nid |-> nid, result |-> <<rec>>]

\* repository.DeleteApp: the links to purge and the delete count
RepoDeleteApp(rels, id) ==
    LET hit == {r \in rels : r.id = id}
    IN  [rels |-> rels \ hit,
         links |-> UNION {{a.link : a \in Artifacts(r)} : r \in hit},
         count |-> Cardinality(hit)]

\* Candidates with the published filter dropped
CandidatesIgnorePublished(rels, app, channel, platform, arch) ==
    {r \in rels : /\ r.app_name = app
                  /\ r.channel = channel
                  /\ MatchingArtifacts(r, platform, arch) # {}}

\* the published releases of (app, channel) with an artifact for (platform, arch)
Candidates(rels, app, channel, platform, arch) ==
    {r \in rels : /\ r.app_name = app
                  /\ r.channel = channel
                  /\ r.published
                  /\ MatchingArtifacts(r, platform, arch) # {}}

\* the candidate no other candidate's version exceeds
Latest(cands) ==
    CHOOSE r \in cands : \A o \in cands : ~StrVersionLess(r.version, o.version)

\* repository.CheckLatestVersion
CheckLatestVersion(rels, app, version, channel, platform, arch) ==
    LET cands == Candidates(rels, app, channel, platform, arch)
    IN  IF ParseVersion(version) = <<>>
        THEN [err |-> BadVersionMsg, Found |-> FALSE, Artifacts |-> {}]
        ELSE IF cands = {}
        THEN [err |-> NoError, Found |-> FALSE, Artifacts |-> {}]
        ELSE LET w == Latest(cands)
                 arts == MatchingArtifacts(w, platform, arch)
             IN  IF StrVersionLess(w.version, version)
                 THEN [err |-> NewerMsg(version), Found |-> FALSE, Artifacts |-> {}]
                 ELSE [err |-> NoError,
                       Found |-> StrVersionLess(version, w.version),
                       Artifacts |-> arts]

\* ------------------------------------------------------------------ blob store

\* utils.UploadToS3: the extension is the file name from its first dot on
S3Extension(baseFileName) ==
    LET dotIndex == Index(baseFileName, ".")
    IN  IF dotIndex > 0 THEN SubSeq(baseFileName, dotIndex, Len(baseFileName))
        ELSE <<>>

\* utils.UploadToS3: newFileName
S3NewFileName(appName, version, baseFileName) ==
    <<appName, "-">> \o version \o S3Extension(baseFileName)

\* utils.UploadToS3: the link recorded with the artifact
S3Link(appName, version, baseFileName) ==
    S3_ENDPOINT \o <<"/", appName, "/">> \o S3NewFileName(appName, version, baseFileName)

\* utils.UploadToS3: the object key the blob is put under
S3Key(appName, version, baseFileName) ==
    <<appName, "/">> \o S3NewFileName(appName, version, baseFileName)

\* DeleteApp: the object key handed to utils.DeleteFromS3 for a link
DeleteKey(link) == TrimPrefix(link, S3_ENDPOINT)

PutObject(store, key, content) ==
    [k \in (DOMAIN store) \cup {key} |-> IF k = key THEN content ELSE store[k]]

DeleteObject(store, key) ==
    [k \in (DOMAIN store) \ {key} |-> store[k]]

\* ------------------------------------------------------------------ cache

CacheKey(app, version, channel, platform, arch) ==
    <<"app_name=", app, "&version=">> \o version
        \o <<"&channel=", channel, "&platform=", platform, "&arch=", arch>>

\* InvalidateCache: the pattern handed to rdb.Keys
CachePattern(params) ==
    <<"app_name=", params.app_name, "&version=", "*",
      "&channel=", params.channel, "&platform=", "*", "&arch=", "*">>

\* rdb.Keys: glob match, "*" standing for any run of tokens
RECURSIVE GlobMatch(_, _)
GlobMatch(pat, s) ==
    IF pat = <<>> THEN s = <<>>
    ELSE IF Head(pat) = "*"
         THEN \E k \in 0..Len(s) : GlobMatch(Tail(pat), SubSeq(s, k + 1, Len(s)))
    ELSE /\ s # <<>>
         /\ Head(s) = Head(pat)
         /\ GlobMatch(Tail(pat), Tail(s))

\* the cache without the entries of these keys
DelKeys(c, keys) == [k \in (DOMAIN c) \ keys |-> c[k]]

\* rdb.Set: the cache with this answer stored under the key
SetKey(c, key, answer) ==
    [k \in (DOMAIN c) \cup {key} |-> IF k = key THEN answer ELSE c[k]]

\* InvalidateCache: the cache after every matching key was deleted
InvalidateCache(c, params) ==
    DelKeys(c, {k \in DOMAIN c : GlobMatch(CachePattern(params), k)})

\* ------------------------------------------------------------------ UploadApp

\* UploadAppStart with the ValidateParams error dropped
UploadAppStartIgnoreErr(p, params, files) ==
    /\ Idle(p)
    /\ nextId <= MaxReleases
    /\ req' = [req EXCEPT ![p] = [kind |-> "upload", params |-> params, files |-> files]]
    /\ work' = [work EXCEPT ![p] = EmptyWork]
    /\ resp' = [resp EXCEPT ![p] = <<>>]
    /\ pc' = [pc EXCEPT ![p] = IF files = <<>> THEN "finish" ELSE "s3"]
    /\ UNCHANGED <<storeVars, storeFailed>>

\* UploadApp: ValidateParams, then the multipart form
UploadAppStart(p, params, files) ==
    /\ Idle(p)
    /\ nextId <= MaxReleases
    /\ req' = [req EXCEPT ![p] = [kind |-> "upload", params |-> params, files |-> files]]
    /\ work' = [work EXCEPT ![p] = EmptyWork]
    /\ LET err == ValidateParams(dims, params, TRUE)
       IN  IF err # NoError
           THEN /\ resp' = [resp EXCEPT ![p] = <<Response(400, [error |-> err])>>]
                /\ pc' = [pc EXCEPT ![p] = "done"]
           ELSE /\ resp' = [resp EXCEPT ![p] = <<>>]
                /\ pc' = [pc EXCEPT ![p] = IF files = <<>> THEN "finish" ELSE "s3"]
    /\ UNCHANGED <<storeVars, storeFailed>>

\* UploadAppS3 with the PutObject error dropped: the link is kept and the loop goes on
UploadAppS3IgnoreErr(p) ==
    /\ pc[p] = "s3"
    /\ LET prm == req[p].params
           file == req[p].files[Len(work[p].links) + 1]
           link == S3Link(prm.app_name, prm.version, file)
           key == S3Key(prm.app_name, prm.version, file)
       IN  /\ \/ /\ blobs' = PutObject(blobs, key, file)
                 /\ work' = [work EXCEPT ![p].links = Append(@, link),
                                         ![p].extensions = Append(@, S3Extension(file))]
                 /\ UNCHANGED storeFailed
              \/ /\ faults
                 /\ storeFailed' = TRUE
                 /\ work' = [work EXCEPT ![p].links = Append(@, link),
                                         ![p].extensions = Append(@, S3Extension(file)),
                                         ![p].fault = "PutObject"]
                 /\ UNCHANGED blobs
           /\ pc' = [pc EXCEPT ![p] =
                       IF Len(work[p].links) + 1 = Len(req[p].files)
                       THEN "meta" ELSE "s3"]
           /\ UNCHANGED resp
    /\ UNCHANGED <<dims, releases, nextId, cache, performanceMode, faults, slackEnable, notes, req>>

\* UploadApp, first loop: one utils.UploadToS3 call
UploadAppS3(p) ==
    /\ pc[p] = "s3"
    /\ LET prm == req[p].params
           file == req[p].files[Len(work[p].links) + 1]
           link == S3Link(prm.app_name, prm.version, file)
           key == S3Key(prm.app_name, prm.version, file)
           s3err == Response(500, [error |-> <<"failed to upload file to S3">>])
       IN  \/ \* PutObject succeeds
              /\ blobs' = PutObject(blobs, key, file)
              /\ work' = [work EXCEPT ![p].links = Append(@, link),
                                      ![p].extensions = Append(@, S3Extension(file))]
              /\ pc' = [pc EXCEPT ![p] =
                          IF Len(work[p].links) + 1 = Len(req[p].files)
                          THEN "meta" ELSE "s3"]
              /\ UNCHANGED <<resp, storeFailed>>
           \/ \* PutObject fails: UploadToS3 writes its error body, the handler
              \* writes its own and returns
              /\ faults
              /\ storeFailed' = TRUE
              /\ resp' = [resp EXCEPT ![p] = @ \o <<s3err, s3err>>]
              /\ work' = [work EXCEPT ![p] = FailedWork("PutObject")]
              /\ pc' = [pc EXCEPT ![p] = "done"]
              /\ UNCHANGED blobs
    /\ UNCHANGED <<dims, releases, nextId, cache, performanceMode, faults, slackEnable, notes, req>>

\* UploadAppMeta with the repository error answered as a success
UploadAppMetaErrAsSuccess(p) ==
    /\ pc[p] = "meta"
    /\ LET prm == req[p].params
           i == Len(work[p].results) + 1
           up == RepoUpload(releases, nextId, prm, work[p].links[i],
                            work[p].extensions[i])
       IN  /\ IF up.err # NoError
              THEN /\ resp' = [resp EXCEPT ![p] =
                                 Append(@, Response(200, [uploadResult |-> 0]))]
                   /\ work' = [work EXCEPT ![p] = EmptyWork]
                   /\ pc' = [pc EXCEPT ![p] = "done"]
                   /\ UNCHANGED <<releases, nextId>>
              ELSE /\ releases' = up.rels
                   /\ nextId' = up.nid
                   /\ work' = [work EXCEPT ![p].results = @ \o up.result]
                   /\ pc' = [pc EXCEPT ![p] =
                               IF i = Len(work[p].links) THEN "finish" ELSE "meta"]
                   /\ UNCHANGED resp
           /\ UNCHANGED storeFailed
    /\ UNCHANGED <<dims, blobs, cache, performanceMode, faults, slackEnable, notes, req>>

\* UploadApp, second loop: one repository.Upload call
UploadAppMeta(p) ==
    /\ pc[p] = "meta"
    /\ LET prm == req[p].params
           i == Len(work[p].results) + 1
           up == RepoUpload(releases, nextId, prm, work[p].links[i],
                            work[p].extensions[i])
       IN  \/ \* the store answers
              /\ IF up.err # NoError
                 THEN /\ resp' = [resp EXCEPT ![p] =
                                    Append(@, Response(500, [error |-> up.err]))]
                      /\ work' = [work EXCEPT ![p] = EmptyWork]
                      /\ pc' = [pc EXCEPT ![p] = "done"]
                      /\ UNCHANGED <<releases, nextId>>
                 ELSE /\ releases' = up.rels
                      /\ nextId' = up.nid
                      /\ work' = [work EXCEPT ![p].results = @ \o up.result]
                      /\ pc' = [pc EXCEPT ![p] =
                                  IF i = Len(work[p].links) THEN "finish" ELSE "meta"]
                      /\ UNCHANGED resp
              /\ UNCHANGED storeFailed
           \/ \* the store call fails
              /\ faults
              /\ storeFailed' = TRUE
              /\ resp' = [resp EXCEPT ![p] =
                            Append(@, Response(500, [error |-> MetadataErrMsg]))]
              /\ work' = [work EXCEPT ![p] = FailedWork("Upload")]
              /\ pc' = [pc EXCEPT ![p] = "done"]
              /\ UNCHANGED <<releases, nextId>>
    /\ UNCHANGED <<dims, blobs, cache, performanceMode, faults, slackEnable, notes, req>>

\* the response UploadApp ends with
UploadAppResponse(results) ==
    IF results = <<>>
    THEN Response(500, [error |-> <<"no results found. Please check your files.">>])
    ELSE Response(200, [uploadResult |-> results[1].id])

\* SpawnNotification without the test of the results: a task for every upload
\* that reaches the end of the handler
SpawnNotificationAlways(n, params, results) ==
    IF slackEnable
    THEN n \cup {[app_name |-> params.app_name, channel |-> params.channel,
                  version |-> params.version, state |-> "spawned"]}
    ELSE n

\* UploadApp: the go statement after the success response; the task it starts
\* sends nothing unless SLACK_ENABLE is set
SpawnNotification(n, params, results) ==
    IF slackEnable /\ results # <<>>
    THEN n \cup {[app_name |-> params.app_name, channel |-> params.channel,
                  version |-> params.version, state |-> "spawned"]}
    ELSE n

\* the detached task: utils.SendSlackNotification posts the message, or fails to
SendSlackNotification(n) ==
    /\ n \in notes
    /\ n.state = "spawned"
    /\ \E outcome \in {"sent", "failed"} :
          notes' = (notes \ {n}) \cup {[n EXCEPT !.state = outcome]}
    /\ UNCHANGED <<dims, releases, nextId, blobs, cache, performanceMode, faults,
                   storeFailed, slackEnable, pc, req, work, resp>>

\* the keys InvalidateCache's pattern selects
MatchingKeys(keys, params) == {k \in keys : GlobMatch(CachePattern(params), k)}

\* UploadAppFinish with the publish test dropped: every upload invalidates
UploadAppFinishAlwaysInvalidate(p) ==
    /\ pc[p] = "finish"
    /\ cache' = IF performanceMode THEN InvalidateCache(cache, req[p].params) ELSE cache
    /\ resp' = [resp EXCEPT ![p] = Append(@, UploadAppResponse(work[p].results))]
    /\ work' = [work EXCEPT ![p] = EmptyWork]
    /\ notes' = SpawnNotification(notes, req[p].params, work[p].results)
    /\ pc' = [pc EXCEPT ![p] = "done"]
    /\ UNCHANGED <<dims, releases, nextId, blobs, performanceMode, faults, slackEnable, storeFailed, req>>

\* UploadAppFinish with the InvalidateCache error answered to the caller
UploadAppFinishSurfaceCacheErr(p) ==
    /\ pc[p] = "finish"
    /\ \/ /\ cache' = IF performanceMode /\ req[p].params.publish
                      THEN InvalidateCache(cache, req[p].params)
                      ELSE cache
          /\ resp' = [resp EXCEPT ![p] = Append(@, UploadAppResponse(work[p].results))]
          /\ work' = [work EXCEPT ![p] = EmptyWork]
          /\ UNCHANGED storeFailed
       \/ /\ faults /\ performanceMode /\ req[p].params.publish
          /\ cache' = cache
          /\ storeFailed' = TRUE
          /\ resp' = [resp EXCEPT ![p] = Append(@,
                        Response(500, [error |-> <<"failed to fetch keys for invalidation">>]))]
          /\ work' = [work EXCEPT ![p] = FailedWork("Keys")]
    /\ notes' = SpawnNotification(notes, req[p].params, work[p].results)
    /\ pc' = [pc EXCEPT ![p] = "done"]
    /\ UNCHANGED <<dims, releases, nextId, blobs, performanceMode, faults, slackEnable, req>>

\* UploadAppFinish with the invalidation loop ending at the first rdb.Del that fails
UploadAppFinishStopAtFailedDel(p) ==
    /\ pc[p] = "finish"
    /\ \/ /\ cache' = IF performanceMode /\ req[p].params.publish
                      THEN InvalidateCache(cache, req[p].params)
                      ELSE cache
          /\ work' = [work EXCEPT ![p] =
                        [EmptyWork EXCEPT !.keys =
                            IF performanceMode /\ req[p].params.publish
                            THEN MatchingKeys(DOMAIN cache, req[p].params) ELSE {}]]
          /\ UNCHANGED storeFailed
       \/ /\ faults /\ performanceMode /\ req[p].params.publish
          /\ cache' = cache
          /\ storeFailed' = TRUE
          /\ work' = [work EXCEPT ![p] = FailedWork("Keys")]
       \/ /\ faults /\ performanceMode /\ req[p].params.publish
          /\ \E kept \in SUBSET MatchingKeys(DOMAIN cache, req[p].params) :
                /\ kept # {}
                /\ cache' = cache
                /\ work' = [work EXCEPT ![p] =
                              [FailedWork("Del") EXCEPT
                                  !.keys = MatchingKeys(DOMAIN cache, req[p].params),
                                  !.failed = kept]]
          /\ storeFailed' = TRUE
    /\ resp' = [resp EXCEPT ![p] = Append(@, UploadAppResponse(work[p].results))]
    /\ notes' = SpawnNotification(notes, req[p].params, work[p].results)
    /\ pc' = [pc EXCEPT ![p] = "done"]
    /\ UNCHANGED <<dims, releases, nextId, blobs, performanceMode, faults, slackEnable, req>>

\* UploadApp: cache invalidation and the response
UploadAppFinish(p) ==
    /\ pc[p] = "finish"
    /\ \/ \* no invalidation, or rdb.Keys and every rdb.Del succeed
          /\ cache' = IF performanceMode /\ req[p].params.publish
                      THEN InvalidateCache(cache, req[p].params)
                      ELSE cache
          /\ work' = [work EXCEPT ![p] =
                        [EmptyWork EXCEPT !.keys =
                            IF performanceMode /\ req[p].params.publish
                            THEN MatchingKeys(DOMAIN cache, req[p].params) ELSE {}]]
          /\ UNCHANGED storeFailed
       \/ \* rdb.Keys fails: InvalidateCache returns the error, the handler logs it
          /\ faults /\ performanceMode /\ req[p].params.publish
          /\ cache' = cache
          /\ storeFailed' = TRUE
          /\ work' = [work EXCEPT ![p] = FailedWork("Keys")]
       \/ \* rdb.Del fails for some keys: logged, the loop goes on
          /\ faults /\ performanceMode /\ req[p].params.publish
          /\ \E kept \in SUBSET MatchingKeys(DOMAIN cache, req[p].params) :
                /\ kept # {}
                /\ cache' = DelKeys(cache, MatchingKeys(DOMAIN cache, req[p].params) \ kept)
                /\ work' = [work EXCEPT ![p] =
                              [FailedWork("Del") EXCEPT
                                  !.keys = MatchingKeys(DOMAIN cache, req[p].params),
                                  !.failed = kept]]
          /\ storeFailed' = TRUE
    /\ resp' = [resp EXCEPT ![p] = Append(@, UploadAppResponse(work[p].results))]
    /\ notes' = SpawnNotification(notes, req[p].params, work[p].results)
    /\ pc' = [pc EXCEPT ![p] = "done"]
    /\ UNCHANGED <<dims, releases, nextId, blobs, performanceMode, faults, slackEnable, req>>

\* ------------------------------------------------------------------ DeleteApp

\* DeleteApp: repository.DeleteApp; an error is logged and the handler goes on
DeleteAppStart(p, id) ==
    /\ Idle(p)
    /\ req' = [req EXCEPT ![p] = [kind |-> "delete", id |-> id]]
    /\ resp' = [resp EXCEPT ![p] = <<>>]
    /\ pc' = [pc EXCEPT ![p] = "del_s3"]
    /\ \/ LET d == RepoDeleteApp(releases, id)
          IN  /\ releases' = d.rels
              /\ work' = [work EXCEPT ![p] =
                            [EmptyWork EXCEPT !.pending = d.links, !.deleted = d.links,
                                              !.count = d.count]]
              /\ UNCHANGED storeFailed
       \/ /\ faults
          /\ storeFailed' = TRUE
          /\ work' = [work EXCEPT ![p] = FailedWork("DeleteApp")]
          /\ UNCHANGED releases
    /\ UNCHANGED <<dims, nextId, blobs, cache, performanceMode, faults, slackEnable, notes>>

\* DeleteApp: one utils.DeleteFromS3 call
DeleteAppS3(p) ==
    /\ pc[p] = "del_s3"
    /\ \E link \in work[p].pending :
          /\ \/ /\ blobs' = DeleteObject(blobs, DeleteKey(link))
                /\ work' = [work EXCEPT ![p].pending = @ \ {link}]
                /\ UNCHANGED <<resp, storeFailed>>
             \/ \* DeleteObject fails: DeleteFromS3 writes an error body and returns
                /\ faults
                /\ storeFailed' = TRUE
                /\ work' = [work EXCEPT ![p].pending = @ \ {link},
                                        ![p].fault = "DeleteObject"]
                /\ resp' = [resp EXCEPT ![p] = Append(@,
                              Response(500, [error |-> <<"failed to delete file from S3">>]))]
                /\ UNCHANGED blobs
    /\ UNCHANGED <<dims, releases, nextId, cache, performanceMode, faults, slackEnable, notes, pc, req>>

\* DeleteApp: the response
DeleteAppRespond(p) ==
    /\ pc[p] = "del_s3"
    /\ work[p].pending = {}
    /\ resp' = [resp EXCEPT ![p] =
                  Append(@, Response(200, [DeletedCount |-> work[p].count]))]
    /\ work' = [work EXCEPT ![p] = [FailedWork(work[p].fault) EXCEPT
                                       !.deleted = work[p].deleted]]
    /\ pc' = [pc EXCEPT ![p] = "done"]
    /\ UNCHANGED <<storeVars, storeFailed, req>>

\* ------------------------------------------------------------------ queries

Query(app, version, channel, platform, arch) ==
    [app_name |-> app, version |-> version, channel |-> channel,
     platform |-> platform, arch |-> arch]

\* FindLatestVersion: the update_url_<ext> entries, keyed by the extension
\* without its leading dot
UpdateUrls(artifacts) ==
    LET shown == {a \in artifacts : a.package # <<>> /\ a.link # <<>>}
        keys == {TrimPrefix(a.package, <<".">>) : a \in shown}
    IN  [k \in keys |->
           (CHOOSE a \in shown : TrimPrefix(a.package, <<".">>) = k).link]

\* FindLatestVersionResponse with the repository error answered as "no update"
FindLatestVersionResponseErrAsNoUpdate(verr, checkResult) ==
    IF verr # NoError
    THEN Response(400, [error |-> verr])
    ELSE IF ~checkResult.Found
    THEN Response(200, [update_available |-> FALSE, error |-> NotFoundMsg])
    ELSE Response(200, [update_available |-> TRUE,
                        update_url |-> UpdateUrls(checkResult.Artifacts)])

\* FindLatestVersionResponse with the Found test inverted
FindLatestVersionResponseFoundInverted(verr, checkResult) ==
    IF verr # NoError
    THEN Response(400, [error |-> verr])
    ELSE IF checkResult.err # NoError
    THEN Response(500, [error |-> checkResult.err])
    ELSE IF checkResult.Found
    THEN Response(200, [update_available |-> FALSE, error |-> NotFoundMsg])
    ELSE Response(200, [update_available |-> TRUE,
                        update_url |-> UpdateUrls(checkResult.Artifacts)])

\* FindLatestVersion: the response for a validation error and a check result
FindLatestVersionResponse(verr, checkResult) ==
    IF verr # NoError
    THEN Response(400, [error |-> verr])
    ELSE IF checkResult.err # NoError
    THEN Response(500, [error |-> checkResult.err])
    ELSE IF ~checkResult.Found
    THEN Response(200, [update_available |-> FALSE, error |-> NotFoundMsg])
    ELSE Response(200, [update_available |-> TRUE,
                        update_url |-> UpdateUrls(checkResult.Artifacts)])

\* FindLatestVersion (GET /checkVersion)
FindLatestVersion(p, q) ==
    /\ Idle(p)
    /\ req' = [req EXCEPT ![p] = [kind |-> "check", q |-> q]]
    /\ work' = [work EXCEPT ![p] = EmptyWork]
    /\ resp' = [resp EXCEPT ![p] =
                  <<FindLatestVersionResponse(
                      ValidateParams(dims, q, FALSE),
                      CheckLatestVersion(releases, q.app_name, q.version, q.channel,
                                         q.platform, q.arch))>>]
    /\ pc' = [pc EXCEPT ![p] = "done"]
    /\ UNCHANGED <<storeVars, storeFailed>>

\* the Check query with the cache configured: a hit is answered from the cache, a
\* miss is resolved and the answer stored under the query's key
CachedFindLatestVersion(p, q) ==
    /\ Idle(p)
    /\ performanceMode
    /\ LET key == CacheKey(q.app_name, q.version, q.channel, q.platform, q.arch)
           verr == ValidateParams(dims, q, FALSE)
           res == CheckLatestVersion(releases, q.app_name, q.version, q.channel,
                                     q.platform, q.arch)
           answer == FindLatestVersionResponse(verr, res)
       IN  /\ req' = [req EXCEPT ![p] = [kind |-> "cachedCheck", query |-> q,
                                         hit |-> key \in DOMAIN cache]]
           /\ resp' = [resp EXCEPT ![p] =
                         IF key \in DOMAIN cache THEN <<cache[key]>> ELSE <<answer>>]
           /\ cache' = IF key \notin DOMAIN cache /\ verr = NoError /\ res.err = NoError
                       THEN SetKey(cache, key, answer) ELSE cache
    /\ work' = [work EXCEPT ![p] = EmptyWork]
    /\ pc' = [pc EXCEPT ![p] = "done"]
    /\ UNCHANGED <<dims, releases, nextId, blobs, performanceMode, faults, slackEnable, notes, storeFailed>>


\* LatestBundle emitting every artifact of the winner
LatestBundleAllArtifacts(rels, q) ==
    LET cands == Candidates(rels, q.app_name, q.channel, q.platform, q.arch)
    IN  IF cands = {} THEN {}
        ELSE {<<q.channel, a.platform, a.arch, TrimPrefix(a.package, <<".">>), a.link>> :
                 a \in Artifacts(Latest(cands))}

\* the channel -> platform -> arch -> ext -> url mapping of a release, flattened
LatestBundle(rels, q) ==
    LET cands == Candidates(rels, q.app_name, q.channel, q.platform, q.arch)
    IN  IF cands = {} THEN {}
        ELSE {<<q.channel, a.platform, a.arch, TrimPrefix(a.package, <<".">>), a.link>> :
                 a \in MatchingArtifacts(Latest(cands), q.platform, q.arch)}

\* FetchLatestVersionOfApp (GET /apps/latest)
FetchLatestVersionOfApp(p, q) ==
    /\ Idle(p)
    /\ req' = [req EXCEPT ![p] = [kind |-> "latest", q |-> q]]
    /\ work' = [work EXCEPT ![p] = EmptyWork]
    /\ resp' = [resp EXCEPT ![p] = <<Response(200, [latest |-> LatestBundle(releases, q)])>>]
    /\ pc' = [pc EXCEPT ![p] = "done"]
    /\ UNCHANGED <<storeVars, storeFailed>>

\* ------------------------------------------------------------------ search

\* repository.GetAppByName: the releases of an app, published or not
RepoGetAppByName(rels, name) == {r \in rels : r.app_name = name}

\* GetAppByName answering the published releases only
GetAppByNamePublishedOnly(p, name) ==
    /\ Idle(p)
    /\ req' = [req EXCEPT ![p] = [kind |-> "search", app_name |-> name]]
    /\ work' = [work EXCEPT ![p] = EmptyWork]
    /\ resp' = [resp EXCEPT ![p] = <<Response(200,
                  [apps |-> {r \in RepoGetAppByName(releases, name) : r.published}])>>]
    /\ pc' = [pc EXCEPT ![p] = "done"]
    /\ UNCHANGED <<storeVars, storeFailed>>

\* GetAppByName (GET /search): a repository error is logged and the list stays nil
GetAppByName(p, name) ==
    /\ Idle(p)
    /\ req' = [req EXCEPT ![p] = [kind |-> "search", app_name |-> name]]
    /\ \/ /\ resp' = [resp EXCEPT ![p] = <<Response(200,
                        [apps |-> RepoGetAppByName(releases, name)])>>]
          /\ work' = [work EXCEPT ![p] = EmptyWork]
          /\ UNCHANGED storeFailed
       \/ /\ faults
          /\ storeFailed' = TRUE
          /\ resp' = [resp EXCEPT ![p] = <<Response(200, [apps |-> {}])>>]
          /\ work' = [work EXCEPT ![p] = FailedWork("GetAppByName")]
    /\ pc' = [pc EXCEPT ![p] = "done"]
    /\ UNCHANGED storeVars

\* ------------------------------------------------------------------ release update

\* repository.Update: overwrite the mutable fields of the release with this id
RepoUpdate(rels, id, publish, critical, changes) ==
    {IF r.id # id THEN r
     ELSE [r EXCEPT !.published = publish,
                    !.critical = critical,
                    !.changelog = [i \in 1..Len(@) |->
                                     IF @[i].version = r.version
                                     THEN [@[i] EXCEPT !.changes = changes]
                                     ELSE @[i]]] : r \in rels}

\* UpdateSpecificApp (POST /apps/update), without a file part
UpdateSpecificApp(p, id, publish, critical, changes) ==
    /\ Idle(p)
    /\ req' = [req EXCEPT ![p] = [kind |-> "update", id |-> id]]
    /\ work' = [work EXCEPT ![p] = EmptyWork]
    /\ releases' = RepoUpdate(releases, id, publish, critical, changes)
    /\ resp' = [resp EXCEPT ![p] =
                  IF \E r \in releases : r.id = id
                  THEN <<Response(200, [Updated |-> TRUE])>>
                  ELSE <<Response(500, [error |-> <<"release not found">>])>>]
    /\ pc' = [pc EXCEPT ![p] = "done"]
    /\ UNCHANGED <<dims, nextId, blobs, cache, performanceMode, faults, slackEnable, notes, storeFailed>>

\* ------------------------------------------------------------------ dimensions

DimField(kind) ==
    CASE kind = "app" -> "app_name" [] kind = "channel" -> "channel"
      [] kind = "platform" -> "platform" [] kind = "arch" -> "arch"

\* the releases that reference a dimension name
References(rels, kind, name) ==
    IF kind = "app" THEN {r \in rels : r.app_name = name}
    ELSE IF kind = "channel" THEN {r \in rels : r.channel = name}
    ELSE IF kind = "platform"
         THEN {r \in rels : \E a \in Artifacts(r) : a.platform = name}
    ELSE {r \in rels : \E a \in Artifacts(r) : a.arch = name}

\* the release with every reference to a dimension name rewritten
RenameIn(r, kind, old, new) ==
    IF kind = "app" THEN [r EXCEPT !.app_name = IF @ = old THEN new ELSE @]
    ELSE IF kind = "channel" THEN [r EXCEPT !.channel = IF @ = old THEN new ELSE @]
    ELSE IF kind = "platform"
         THEN [r EXCEPT !.artifacts = [i \in 1..Len(@) |->
                 [@[i] EXCEPT !.platform = IF @ = old THEN new ELSE @]]]
    ELSE [r EXCEPT !.artifacts = [i \in 1..Len(@) |->
            [@[i] EXCEPT !.arch = IF @ = old THEN new ELSE @]]]

DuplicateNameMsg(kind) == <<kind, "with this name already exists">>

\* CreateDim without the name lookup
CreateDimNoLookup(p, kind, name) ==
    /\ Idle(p)
    /\ Len(dims[kind]) < MaxDims
    /\ req' = [req EXCEPT ![p] = [kind |-> "createDim", dim |-> kind, name |-> name]]
    /\ work' = [work EXCEPT ![p] = EmptyWork]
    /\ resp' = [resp EXCEPT ![p] = <<Response(200, [Created |-> name])>>]
    /\ dims' = [dims EXCEPT ![kind] = Append(@, name)]
    /\ pc' = [pc EXCEPT ![p] = "done"]
    /\ UNCHANGED <<releases, nextId, blobs, cache, performanceMode, faults, slackEnable, notes, storeFailed>>

\* create(kind, name)
CreateDim(p, kind, name) ==
    /\ Idle(p)
    /\ Len(dims[kind]) < MaxDims
    /\ req' = [req EXCEPT ![p] = [kind |-> "createDim", dim |-> kind, name |-> name]]
    /\ work' = [work EXCEPT ![p] = EmptyWork]
    /\ IF name \in DimNames(dims, kind)
       THEN /\ resp' = [resp EXCEPT ![p] = <<Response(500,
                          [error |-> DuplicateNameMsg(kind)])>>]
            /\ UNCHANGED dims
       ELSE /\ resp' = [resp EXCEPT ![p] = <<Response(200, [Created |-> name])>>]
            /\ dims' = [dims EXCEPT ![kind] = Append(@, name)]
    /\ pc' = [pc EXCEPT ![p] = "done"]
    /\ UNCHANGED <<releases, nextId, blobs, cache, performanceMode, faults, slackEnable, notes, storeFailed>>

\* the list of a kind with a name replaced
RenameDim(names, old, new) ==
    [i \in 1..Len(names) |-> IF names[i] = old THEN new ELSE names[i]]

\* UpdateDim with the releases left as they were
UpdateDimNoCascade(p, kind, old, new) ==
    /\ Idle(p)
    /\ old \in DimNames(dims, kind)
    /\ req' = [req EXCEPT ![p] = [kind |-> "updateDim", dim |-> kind,
                                  old |-> old, new |-> new]]
    /\ work' = [work EXCEPT ![p] = EmptyWork]
    /\ IF new \in DimNames(dims, kind)
       THEN /\ resp' = [resp EXCEPT ![p] = <<Response(500,
                          [error |-> DuplicateNameMsg(kind)])>>]
            /\ UNCHANGED dims
       ELSE /\ resp' = [resp EXCEPT ![p] = <<Response(200, [Updated |-> TRUE])>>]
            /\ dims' = [dims EXCEPT ![kind] = RenameDim(@, old, new)]
    /\ pc' = [pc EXCEPT ![p] = "done"]
    /\ UNCHANGED <<releases, nextId, blobs, cache, performanceMode, faults, slackEnable, notes, storeFailed>>

\* update(kind, id, new_name): the record and every referencing release, in one
\* transaction
UpdateDim(p, kind, old, new) ==
    /\ Idle(p)
    /\ old \in DimNames(dims, kind)
    /\ req' = [req EXCEPT ![p] = [kind |-> "updateDim", dim |-> kind,
                                  old |-> old, new |-> new]]
    /\ \/ \* the transaction commits, or the new name is refused
          /\ work' = [work EXCEPT ![p] = EmptyWork]
          /\ IF new \in DimNames(dims, kind)
             THEN /\ resp' = [resp EXCEPT ![p] = <<Response(500,
                                [error |-> DuplicateNameMsg(kind)])>>]
                  /\ UNCHANGED <<dims, releases>>
             ELSE /\ resp' = [resp EXCEPT ![p] = <<Response(200, [Updated |-> TRUE])>>]
                  /\ dims' = [dims EXCEPT ![kind] = RenameDim(@, old, new)]
                  /\ releases' = {RenameIn(r, kind, old, new) : r \in releases}
          /\ UNCHANGED storeFailed
       \/ \* a write of the transaction fails: both writes are rolled back
          /\ faults
          /\ new \notin DimNames(dims, kind)
          /\ storeFailed' = TRUE
          /\ work' = [work EXCEPT ![p] = FailedWork("UpdateDim")]
          /\ resp' = [resp EXCEPT ![p] = <<Response(500,
                        [error |-> <<"failed to update", kind>>])>>]
          /\ UNCHANGED <<dims, releases>>
    /\ pc' = [pc EXCEPT ![p] = "done"]
    /\ UNCHANGED <<nextId, blobs, cache, performanceMode, faults, slackEnable, notes>>

\* repository.DeleteChannel/DeletePlatform/DeleteArch: refused while a release
\* references the name
RepoDeleteDim(d, rels, kind, name) ==
    IF References(rels, kind, name) # {}
    THEN [err |-> <<kind, "is in use">>, dims |-> d, count |-> 0]
    ELSE [err |-> NoError,
          dims |-> [d EXCEPT ![kind] = SelectSeq(@, LAMBDA n : n # name)],
          count |-> 1]

\* deleteEntity with the repository error answered as a success
DeleteDimErrAsSuccess(p, kind, name) ==
    /\ Idle(p)
    /\ name \in DimNames(dims, kind)
    /\ req' = [req EXCEPT ![p] = [kind |-> "deleteDim", dim |-> kind, name |-> name]]
    /\ work' = [work EXCEPT ![p] = EmptyWork]
    /\ LET d == RepoDeleteDim(dims, releases, kind, name)
       IN  /\ resp' = [resp EXCEPT ![p] = <<Response(200, [DeletedCount |-> d.count])>>]
           /\ dims' = d.dims
    /\ pc' = [pc EXCEPT ![p] = "done"]
    /\ UNCHANGED <<releases, nextId, blobs, cache, performanceMode, faults, slackEnable, notes, storeFailed>>

\* deleteEntity: the repository call and the response
DeleteDim(p, kind, name) ==
    /\ Idle(p)
    /\ name \in DimNames(dims, kind)
    /\ req' = [req EXCEPT ![p] = [kind |-> "deleteDim", dim |-> kind, name |-> name]]
    /\ work' = [work EXCEPT ![p] = EmptyWork]
    /\ LET d == RepoDeleteDim(dims, releases, kind, name)
       IN  /\ resp' = [resp EXCEPT ![p] =
                         IF d.err # NoError
                         THEN <<Response(500, [error |-> <<"failed to delete", kind>>])>>
                         ELSE <<Response(200, [DeletedCount |-> d.count])>>]
           /\ dims' = d.dims
    /\ pc' = [pc EXCEPT ![p] = "done"]
    /\ UNCHANGED <<releases, nextId, blobs, cache, performanceMode, faults, slackEnable, notes, storeFailed>>

\* ------------------------------------------------------------------ specification

\* the sequences over S of length 1..n
RECURSIVE SeqsUpTo(_, _)
SeqsUpTo(S, n) ==
    IF n = 0 THEN {}
    ELSE {<<x>> : x \in S} \cup
         {Append(q, x) : q \in SeqsUpTo(S, n - 1), x \in S}

ReleaseIds == 1..MaxReleases

UploadParams ==
    [app_name : AppNames, version : Versions, channel : ChannelNames,
     platform : PlatformNames, arch : ArchNames,
     publish : BOOLEAN, critical : BOOLEAN, changelog : {""}]

UploadFiles == SeqsUpTo({FileDmg}, MaxFiles)

\* a Latest query carries no version
NoVersion == <<>>

CheckQueries ==
    {Query(a, v, c, pl, ar) :
        a \in AppNames, v \in Versions, c \in ChannelNames,
        pl \in PlatformNames, ar \in ArchNames}

LatestQueries ==
    {Query(a, NoVersion, c, pl, ar) :
        a \in AppNames, c \in ChannelNames, pl \in PlatformNames, ar \in ArchNames}

InitTasks ==
    /\ pc = [p \in Procs |-> "idle"]
    /\ req = [p \in Procs |-> NoRequest]
    /\ work = [p \in Procs |-> EmptyWork]
    /\ resp = [p \in Procs |-> <<>>]

\* the stores after the dimensions were created and before the first upload
\* the dimensions the test suite creates before it uploads
InitDims ==
    [k \in Kinds |->
        CASE k = "app" -> <<"testapp">> [] k = "channel" -> <<"nightly">>
          [] k = "platform" -> <<"p1", "p2">> [] k = "arch" -> <<"x1">>]

InitStores ==
    /\ dims = InitDims
    /\ releases = {}
    /\ nextId = 1
    /\ blobs = <<>>
    /\ cache = <<>>
    /\ performanceMode = TRUE
    /\ slackEnable = FALSE
    /\ notes = {}
    /\ storeFailed = FALSE

Init ==
    /\ InitStores
    /\ InitTasks
    /\ faults = FALSE

\* one request at a time, handled by one task
Next ==
    \/ \E prm \in UploadParams, fs \in UploadFiles : UploadAppStart(SeqProc, prm, fs)
    \/ UploadAppS3(SeqProc)
    \/ UploadAppMeta(SeqProc)
    \/ UploadAppFinish(SeqProc)
    \/ \E id \in ReleaseIds : DeleteAppStart(SeqProc, id)
    \/ DeleteAppS3(SeqProc)
    \/ DeleteAppRespond(SeqProc)
    \/ \E id \in ReleaseIds, pub \in BOOLEAN, crit \in BOOLEAN :
          UpdateSpecificApp(SeqProc, id, pub, crit, "### Changelog")
    \/ \E q \in CheckQueries : FindLatestVersion(SeqProc, q)
    \/ \E q \in LatestQueries : FetchLatestVersionOfApp(SeqProc, q)
    \/ \E a \in AppNames : GetAppByName(SeqProc, a)

Spec == Init /\ [][Next]_vars

\* ---- two tasks, each uploading the same artifact tuple once

ConcParams ==
    [app_name : {"testapp"}, version : {V1}, channel : {"nightly"},
     platform : {"p1"}, arch : {"x1"},
     publish : BOOLEAN, critical : BOOLEAN, changelog : {""}]

ConcFiles == {<<FileDmg>>, <<FileSetup>>}

NextConc ==
    \/ \E p \in Procs, prm \in ConcParams, fs \in ConcFiles :
          pc[p] = "idle" /\ UploadAppStart(p, prm, fs)
    \/ \E p \in Procs : UploadAppS3(p)
    \/ \E p \in Procs : UploadAppMeta(p)
    \/ \E p \in Procs : UploadAppFinish(p)

SpecConc == Init /\ [][NextConc]_vars

\* ---- uploads, release updates and deletes together with dimension maintenance

DimPool(kind) ==
    CASE kind = "app" -> {"testapp"}
      [] kind = "channel" -> {"nightly", "stable"}
      [] kind = "platform" -> {"p1", "p3"}
      [] kind = "arch" -> {"x1"}

DimsUploadParams ==
    [app_name : DimPool("app"), version : {V1}, channel : DimPool("channel") \cup {""},
     platform : {"p1"}, arch : {"x1"},
     publish : {TRUE}, critical : {FALSE}, changelog : {""}]

NextDims ==
    \/ \E prm \in DimsUploadParams : UploadAppStart(SeqProc, prm, <<FileDmg>>)
    \/ UploadAppS3(SeqProc)
    \/ UploadAppMeta(SeqProc)
    \/ UploadAppFinish(SeqProc)
    \/ \E id \in ReleaseIds : DeleteAppStart(SeqProc, id)
    \/ DeleteAppS3(SeqProc)
    \/ DeleteAppRespond(SeqProc)
    \/ \E id \in ReleaseIds :
          UpdateSpecificApp(SeqProc, id, FALSE, TRUE, "### Changelog")
    \/ \E k \in Kinds : \E n \in DimPool(k) : CreateDim(SeqProc, k, n)
    \/ \E k \in Kinds : \E old \in DimPool(k), new \in DimPool(k) :
          UpdateDim(SeqProc, k, old, new)
    \/ \E k \in Kinds : \E n \in DimPool(k) : DeleteDim(SeqProc, k, n)

InitDimsSpec ==
    /\ dims = [k \in Kinds |->
                 CASE k = "app" -> <<"testapp">> [] k = "channel" -> <<"nightly">>
                   [] k = "platform" -> <<"p1">> [] k = "arch" -> <<"x1">>]
    /\ releases = {}
    /\ nextId = 1
    /\ blobs = <<>>
    /\ cache = <<>>
    /\ performanceMode = TRUE
    /\ slackEnable = FALSE
    /\ notes = {}
    /\ storeFailed = FALSE
    /\ faults = FALSE
    /\ InitTasks

SpecDims == InitDimsSpec /\ [][NextDims]_vars

\* ---- uploads and deletes while store calls may fail

InitFaults ==
    /\ InitStores
    /\ InitTasks
    /\ faults = TRUE

FaultsUploadParams ==
    [app_name : AppNames, version : {V1, V2}, channel : ChannelNames,
     platform : {"p1"}, arch : ArchNames,
     publish : BOOLEAN, critical : {FALSE}, changelog : {""}]

FaultsFiles == SeqsUpTo({FileDmg, FilePkg}, MaxFiles)

FaultsQueries ==
    {Query(a, V1, c, "p1", ar) : a \in AppNames, c \in ChannelNames, ar \in ArchNames}

NextFaults ==
    \/ \E prm \in FaultsUploadParams, fs \in FaultsFiles :
          UploadAppStart(SeqProc, prm, fs)
    \/ UploadAppS3(SeqProc)
    \/ UploadAppMeta(SeqProc)
    \/ UploadAppFinish(SeqProc)
    \/ \E id \in ReleaseIds : DeleteAppStart(SeqProc, id)
    \/ DeleteAppS3(SeqProc)
    \/ DeleteAppRespond(SeqProc)
    \/ \E q \in FaultsQueries : CachedFindLatestVersion(SeqProc, q)
    \/ \E a \in AppNames : GetAppByName(SeqProc, a)

SpecFaults == InitFaults /\ [][NextFaults]_vars

\* ---- uploads that name or omit dimensions while dimensions are created and deleted

InitGate ==
    /\ dims = [k \in Kinds |-> IF k = "app" THEN <<"testapp">> ELSE <<>>]
    /\ releases = {}
    /\ nextId = 1
    /\ blobs = <<>>
    /\ cache = <<>>
    /\ performanceMode = TRUE
    /\ slackEnable = FALSE
    /\ notes = {}
    /\ storeFailed = FALSE
    /\ faults = FALSE
    /\ InitTasks

GateKinds == {"channel", "platform", "arch"}

GatePool(kind) ==
    CASE kind = "channel" -> "nightly" [] kind = "platform" -> "p1" [] kind = "arch" -> "x1"

GateUploadParams ==
    [app_name : {"testapp"}, version : {V1},
     channel : {"", "nightly"}, platform : {"", "p1"}, arch : {"", "x1"},
     publish : {TRUE}, critical : {FALSE}, changelog : {""}]

NextGate ==
    \/ \E prm \in GateUploadParams : UploadAppStart(SeqProc, prm, <<FileDmg>>)
    \/ UploadAppS3(SeqProc)
    \/ UploadAppMeta(SeqProc)
    \/ UploadAppFinish(SeqProc)
    \/ \E id \in ReleaseIds : DeleteAppStart(SeqProc, id)
    \/ DeleteAppS3(SeqProc)
    \/ DeleteAppRespond(SeqProc)
    \/ \E k \in GateKinds : CreateDim(SeqProc, k, GatePool(k))
    \/ \E k \in GateKinds : DeleteDim(SeqProc, k, GatePool(k))
    \/ \E c \in {"", "nightly"} :
          CachedFindLatestVersion(SeqProc, Query("testapp", V1, c, "", ""))

SpecGate == InitGate /\ [][NextGate]_vars

\* ---- one task uploads while another renames channels and asks Check queries,
\* ---- store calls may fail

OtherProc == "t2"

RenamePool == {"nightly", "stable"}

RenameUploadParams ==
    [app_name : {"testapp"}, version : {V1}, channel : RenamePool,
     platform : {"p1"}, arch : {"x1"},
     publish : {TRUE}, critical : {FALSE}, changelog : {""}]

NextRename ==
    \/ \E prm \in RenameUploadParams : UploadAppStart(SeqProc, prm, <<FileDmg>>)
    \/ UploadAppS3(SeqProc)
    \/ UploadAppMeta(SeqProc)
    \/ UploadAppFinish(SeqProc)
    \/ \E old \in RenamePool, new \in RenamePool :
          UpdateDim(OtherProc, "channel", old, new)
    \/ \E c \in RenamePool :
          FindLatestVersion(OtherProc, Query("testapp", V1, c, "p1", "x1"))

SpecRename == InitFaults /\ [][NextRename]_vars

\* ---- uploads and Check queries with the cache flag on or off

InitCache ==
    /\ dims = InitDims
    /\ releases = {}
    /\ nextId = 1
    /\ blobs = <<>>
    /\ cache = <<>>
    /\ performanceMode \in BOOLEAN
    /\ slackEnable = FALSE
    /\ notes = {}
    /\ storeFailed = FALSE
    /\ faults = FALSE
    /\ InitTasks

CacheUploadParams ==
    [app_name : AppNames, version : {V1, V2}, channel : ChannelNames,
     platform : PlatformNames, arch : ArchNames,
     publish : BOOLEAN, critical : {FALSE}, changelog : {""}]

CacheQueries ==
    {Query(a, v, c, pl, ar) : a \in AppNames, v \in {V1, V2}, c \in ChannelNames,
                              pl \in PlatformNames, ar \in ArchNames}

NextCache ==
    \/ \E prm \in CacheUploadParams, fs \in UploadFiles :
          UploadAppStart(SeqProc, prm, fs)
    \/ UploadAppS3(SeqProc)
    \/ UploadAppMeta(SeqProc)
    \/ UploadAppFinish(SeqProc)
    \/ \E q \in CacheQueries : CachedFindLatestVersion(SeqProc, q)

SpecCache == InitCache /\ [][NextCache]_vars

\* ---- uploads and queries over versions with one- and two-digit components

VersionPool == {V9, V10, VMinor}

VersionsUploadParams ==
    [app_name : {"testapp"}, version : VersionPool, channel : {"nightly"},
     platform : {"p1"}, arch : {"x1"},
     publish : BOOLEAN, critical : {FALSE}, changelog : {""}]

NextVersions ==
    \/ \E prm \in VersionsUploadParams : UploadAppStart(SeqProc, prm, <<FileDmg>>)
    \/ UploadAppS3(SeqProc)
    \/ UploadAppMeta(SeqProc)
    \/ UploadAppFinish(SeqProc)
    \/ \E id \in ReleaseIds : DeleteAppStart(SeqProc, id)
    \/ DeleteAppS3(SeqProc)
    \/ DeleteAppRespond(SeqProc)
    \/ \E v \in VersionPool :
          FindLatestVersion(SeqProc, Query("testapp", v, "nightly", "p1", "x1"))
    \/ FetchLatestVersionOfApp(SeqProc, Query("testapp", NoVersion, "nightly", "p1", "x1"))

SpecVersions == Init /\ [][NextVersions]_vars

\* ---- uploads and checks with versions that are not four integers

IllFormedVersions == {VShort, VGap, VDash, VDots}

BadVersionUploadParams ==
    [app_name : {"testapp"}, version : IllFormedVersions \cup {V1}, channel : {"nightly"},
     platform : {"p1", "p2"}, arch : {"x1"},
     publish : BOOLEAN, critical : {FALSE}, changelog : {""}]

NextBadVersion ==
    \/ \E prm \in BadVersionUploadParams : UploadAppStart(SeqProc, prm, <<FileDmg>>)
    \/ UploadAppS3(SeqProc)
    \/ UploadAppMeta(SeqProc)
    \/ UploadAppFinish(SeqProc)
    \/ \E v \in IllFormedVersions \cup {V1} :
          FindLatestVersion(SeqProc, Query("testapp", v, "nightly", "p1", "x1"))

SpecBadVersion == Init /\ [][NextBadVersion]_vars

\* ---- uploads, release deletes and cached Checks, no store call failing

StaleUploadParams ==
    [app_name : {"testapp"}, version : {V1, V2}, channel : {"nightly"},
     platform : {"p1"}, arch : {"x1"},
     publish : BOOLEAN, critical : {FALSE}, changelog : {""}]

StaleQueries == {Query("testapp", v, "nightly", "p1", "x1") : v \in {V1, V2}}

NextStale ==
    \/ \E prm \in StaleUploadParams : UploadAppStart(SeqProc, prm, <<FileDmg>>)
    \/ UploadAppS3(SeqProc)
    \/ UploadAppMeta(SeqProc)
    \/ UploadAppFinish(SeqProc)
    \/ \E id \in ReleaseIds : DeleteAppStart(SeqProc, id)
    \/ DeleteAppS3(SeqProc)
    \/ DeleteAppRespond(SeqProc)
    \/ \E q \in StaleQueries : CachedFindLatestVersion(SeqProc, q)

SpecStale == Init /\ [][NextStale]_vars

\* ---- uploads of files that share an extension, one request at a time, the two
\* tasks taking turns in any order

OverwriteParams ==
    [app_name : {"testapp"}, version : {V1, V2}, channel : {"nightly"},
     platform : {"p1"}, arch : {"x1"},
     publish : BOOLEAN, critical : {FALSE}, changelog : {""}]

OverwriteFiles == {<<FileDmg>>, <<FileSetup>>}

NextOverwrite ==
    \/ \E p \in Procs, prm \in OverwriteParams, fs \in OverwriteFiles :
          AllIdle /\ UploadAppStart(p, prm, fs)
    \/ \E p \in Procs : UploadAppS3(p)
    \/ \E p \in Procs : UploadAppMeta(p)
    \/ \E p \in Procs : UploadAppFinish(p)

SpecOverwrite == Init /\ [][NextOverwrite]_vars

\* ---- uploads of a file without an extension, and Checks

NoExtUploadParams ==
    [app_name : {"testapp"}, version : {V1, V2}, channel : {"nightly"},
     platform : {"p1"}, arch : {"x1"},
     publish : BOOLEAN, critical : {FALSE}, changelog : {""}]

NoExtFiles == {<<FileNoExt>>, <<FileDmg>>}

NextNoExt ==
    \/ \E prm \in NoExtUploadParams, fs \in NoExtFiles : UploadAppStart(SeqProc, prm, fs)
    \/ UploadAppS3(SeqProc)
    \/ UploadAppMeta(SeqProc)
    \/ UploadAppFinish(SeqProc)
    \/ \E v \in {V1, V2} :
          FindLatestVersion(SeqProc, Query("testapp", v, "nightly", "p1", "x1"))

SpecNoExt == Init /\ [][NextNoExt]_vars

\* ---- published uploads on two channels beside cached Checks, store calls may fail

InitInvalidate ==
    /\ dims = [k \in Kinds |->
                 CASE k = "app" -> <<"testapp">> [] k = "channel" -> <<"nightly", "stable">>
                   [] k = "platform" -> <<"p1">> [] k = "arch" -> <<"x1">>]
    /\ releases = {}
    /\ nextId = 1
    /\ blobs = <<>>
    /\ cache = <<>>
    /\ performanceMode = TRUE
    /\ slackEnable = FALSE
    /\ notes = {}
    /\ storeFailed = FALSE
    /\ faults = TRUE
    /\ InitTasks

InvalidateChannels == {"nightly", "stable"}

InvalidateUploadParams ==
    [app_name : {"testapp"}, version : {V1}, channel : InvalidateChannels,
     platform : {"p1"}, arch : {"x1"},
     publish : BOOLEAN, critical : {FALSE}, changelog : {""}]

InvalidateQueries ==
    {Query("testapp", v, c, "p1", "x1") : v \in {V1, V2}, c \in InvalidateChannels}

NextInvalidate ==
    \/ \E prm \in InvalidateUploadParams : UploadAppStart(SeqProc, prm, <<FileDmg>>)
    \/ UploadAppS3(SeqProc)
    \/ UploadAppMeta(SeqProc)
    \/ UploadAppFinish(SeqProc)
    \/ \E q \in InvalidateQueries : CachedFindLatestVersion(SeqProc, q)

SpecInvalidate == InitInvalidate /\ [][NextInvalidate]_vars

\* ---- uploads, with and without files, beside the detached notification tasks

InitNotify ==
    /\ dims = InitDims
    /\ releases = {}
    /\ nextId = 1
    /\ blobs = <<>>
    /\ cache = <<>>
    /\ performanceMode = TRUE
    /\ storeFailed = FALSE
    /\ faults = FALSE
    /\ slackEnable \in BOOLEAN
    /\ notes = {}
    /\ InitTasks

NotifyUploadParams ==
    [app_name : {"testapp"}, version : {V1, V2}, channel : {"nightly"},
     platform : {"p1", "p2"}, arch : {"x1"},
     publish : {TRUE}, critical : {FALSE}, changelog : {""}]

NotifyFiles == {<<>>, <<FileDmg>>}

NextNotify ==
    \/ \E prm \in NotifyUploadParams, fs \in NotifyFiles : UploadAppStart(SeqProc, prm, fs)
    \/ UploadAppS3(SeqProc)
    \/ UploadAppMeta(SeqProc)
    \/ UploadAppFinish(SeqProc)
    \/ \E n \in notes : SendSlackNotification(n)

SpecNotify == InitNotify /\ [][NextNotify]_vars

\* ------------------------------------------------------------------ claims: queries

\* a task has answered a query of this kind and nothing has run since
Answered(p, kind) == pc[p] = "done" /\ req[p].kind = kind /\ Len(resp[p]) = 1

\* the releases a query may be answered from
PublishedFor(q) ==
    {r \in releases :
        /\ r.app_name = q.app_name
        /\ r.channel = q.channel
        /\ r.published
        /\ \E a \in Artifacts(r) : a.platform = q.platform /\ a.arch = q.arch}

\* no release a query may be answered from has a larger version
IsLargest(w, q) ==
    \A o \in PublishedFor(q) : o.version = w.version \/ StrVersionLess(o.version, w.version)

LinksFor(r, q) ==
    {a.link : a \in {x \in Artifacts(r) : x.platform = q.platform /\ x.arch = q.arch}}

\* the update_url_<ext> entries a Check answer should carry for release w
UrlsFor(w, q) ==
    LET arts == {x \in Artifacts(w) : x.platform = q.platform /\ x.arch = q.arch}
    IN  {<<TrimPrefix(a.package, <<".">>), a.link>> : a \in arts}

UrlEntries(body) ==
    IF "update_url" \in DOMAIN body
    THEN {<<k, body.update_url[k]>> : k \in DOMAIN body.update_url}
    ELSE {}

\* C1: a Latest query returns the artifacts of the release with the largest version
\* among the published releases of the app and channel that have an artifact for the
\* platform and arch; an unpublished release is never the winner.
C1_LatestIsLargestPublished ==
    \A p \in Procs :
        Answered(p, "latest") =>
            LET q == req[p].q
                got == {e[5] : e \in resp[p][1].body.latest}
            IN  /\ resp[p][1].status = 200
                /\ IF PublishedFor(q) = {} THEN got = {}
                   ELSE \E w \in PublishedFor(q) : IsLargest(w, q) /\ got = LinksFor(w, q)
                /\ \A r \in releases :
                      (r.app_name = q.app_name /\ r.channel = q.channel /\ ~r.published)
                          => got \cap LinksFor(r, q) = {}

\* C1 witness: a Latest answer names a published release while an unpublished release
\* of the same app and channel has a larger version and a matching artifact.
C1_Witness ==
    \E p \in Procs :
        /\ Answered(p, "latest")
        /\ resp[p][1].body.latest # {}
        /\ \E w \in PublishedFor(req[p].q), r \in releases :
              /\ r.app_name = w.app_name /\ r.channel = w.channel /\ ~r.published
              /\ LinksFor(r, req[p].q) # {}
              /\ IsLargest(w, req[p].q)
              /\ StrVersionLess(w.version, r.version)

\* C2: a Check whose client version is lower than the latest published matching
\* release answers update_available=true, one update_url_<ext> per matching artifact
\* of that release, and critical equal to that release's critical flag.
C2_CheckOlderCarriesCritical ==
    \A p \in Procs :
        Answered(p, "check") =>
            LET q == req[p].q
                body == resp[p][1].body
            IN  \A w \in PublishedFor(q) :
                    (IsLargest(w, q) /\ StrVersionLess(q.version, w.version)) =>
                        /\ resp[p][1].status = 200
                        /\ "update_available" \in DOMAIN body
                        /\ body.update_available = TRUE
                        /\ UrlEntries(body) = UrlsFor(w, q)
                        /\ "critical" \in DOMAIN body
                        /\ body.critical = w.critical

\* C3: a Check whose client version equals the latest published matching release
\* answers update_available=false and still carries that release's update_url_<ext>
\* entries; update_available is true only for a strictly lower client version.
C3_CheckEqualCarriesUrls ==
    \A p \in Procs :
        Answered(p, "check") =>
            LET q == req[p].q
                body == resp[p][1].body
            IN  \A w \in PublishedFor(q) :
                    IsLargest(w, q) =>
                        /\ q.version = w.version =>
                              /\ resp[p][1].status = 200
                              /\ "update_available" \in DOMAIN body
                              /\ body.update_available = FALSE
                              /\ UrlEntries(body) = UrlsFor(w, q)
                        /\ ("update_available" \in DOMAIN body /\ body.update_available)
                              => StrVersionLess(q.version, w.version)

\* C4: a Check whose client version is higher than the latest published matching
\* release is answered with HTTP 500 and the "requested version V is newer than the
\* latest version available" error, without an update_available field; also when V
\* is the version of an unpublished release of the app and channel.
C4_CheckNewerIsBadVersion ==
    \A p \in Procs :
        Answered(p, "check") =>
            LET q == req[p].q
            IN  \A w \in PublishedFor(q) :
                    (IsLargest(w, q) /\ StrVersionLess(w.version, q.version)) =>
                        /\ resp[p][1].status = 500
                        /\ DOMAIN resp[p][1].body = {"error"}
                        /\ resp[p][1].body.error = NewerMsg(q.version)

\* C4 witness: the BadVersion answer for the version of an existing unpublished release.
C4_Witness ==
    \E p \in Procs :
        /\ Answered(p, "check")
        /\ resp[p][1].status = 500
        /\ \E w \in PublishedFor(req[p].q), r \in releases :
              /\ IsLargest(w, req[p].q)
              /\ StrVersionLess(w.version, req[p].q.version)
              /\ r.app_name = w.app_name /\ r.channel = w.channel /\ ~r.published
              /\ r.version = req[p].q.version

\* C5: a Check that no published release matches is answered with HTTP 200,
\* update_available=false and error "Not found", and carries no update URL.
C5_CheckNoCandidateNotFound ==
    \A p \in Procs :
        (Answered(p, "check") /\ PublishedFor(req[p].q) = {}) =>
            /\ resp[p][1].status = 200
            /\ DOMAIN resp[p][1].body = {"update_available", "error"}
            /\ resp[p][1].body.update_available = FALSE
            /\ resp[p][1].body.error = NotFoundMsg

\* C5 witness: the "Not found" answer while the app has a release on the channel
\* that is unpublished.
C5_Witness ==
    \E p \in Procs :
        /\ Answered(p, "check")
        /\ PublishedFor(req[p].q) = {}
        /\ resp[p][1].status = 200
        /\ \E r \in releases :
              /\ r.app_name = req[p].q.app_name /\ r.channel = req[p].q.channel
              /\ ~r.published
              /\ LinksFor(r, req[p].q) # {}

\* ------------------------------------------------------------------ claims: uploads

\* the artifact tuple the next repository.Upload call of a task would record is
\* already in the metadata store
TuplePresent(p) ==
    LET prm == req[p].params
        ext == work[p].extensions[Len(work[p].results) + 1]
    IN  \E r \in releases :
           /\ ReleaseKey(r) = <<prm.app_name, prm.version, prm.channel>>
           /\ \E a \in Artifacts(r) :
                 a.platform = prm.platform /\ a.arch = prm.arch /\ a.package = ext

DuplicateResponse == Response(500, [error |-> DupArtifactMsg])

\* C6: an upload whose (app_name, version, channel, platform, arch, extension) is
\* already in the metadata store fails with DuplicateArtifact, and the releases
\* (artifacts, flags, changelog) are the same after the failed call as before it.
C6_DuplicateUploadRejected ==
    [][\A p \in Procs :
          (/\ pc[p] = "meta"
           /\ work'[p] # work[p]
           /\ work'[p].fault = "none"
           /\ TuplePresent(p))
          => /\ releases' = releases
             /\ pc'[p] = "done"
             /\ resp'[p] = Append(resp[p], DuplicateResponse)]_vars

\* C6 witness: an upload was answered DuplicateArtifact and the release still holds
\* the one artifact of the first upload.
C6_Witness ==
    \E p \in Procs :
        /\ pc[p] = "done"
        /\ req[p].kind = "upload"
        /\ resp[p] = <<DuplicateResponse>>
        /\ \E r \in releases :
              /\ ReleaseKey(r) = <<req[p].params.app_name, req[p].params.version,
                                   req[p].params.channel>>
              /\ Len(r.artifacts) = 1
              /\ r.artifacts[1].platform = req[p].params.platform
              /\ r.artifacts[1].package = S3Extension(req[p].files[1])

\* the link under which clients fetch the blob stored at an object key
LinkOfKey(key) == S3_ENDPOINT \o <<"/">> \o key

AllLinks == UNION {{a.link : a \in Artifacts(r)} : r \in releases}

\* C9: between requests, every artifact link in the metadata store refers to a blob
\* in the blob store and, when no store call has failed, every blob is referenced by
\* an artifact link.
C9_NoDanglingLinkNoOrphan ==
    AllIdle =>
        /\ \A l \in AllLinks : \E k \in DOMAIN blobs : LinkOfKey(k) = l
        /\ ~storeFailed => \A k \in DOMAIN blobs : LinkOfKey(k) \in AllLinks

\* C7: when two uploads of the same (app, version, channel, platform, arch, ext) run
\* concurrently, exactly one succeeds, the other fails with DuplicateArtifact, and the
\* release ends with exactly one artifact for that (platform, arch, ext).
C7_ConcurrentDuplicateOneWins ==
    (\A p \in Procs : pc[p] = "done" /\ req[p].kind = "upload") =>
        /\ Cardinality({p \in Procs : Len(resp[p]) = 1 /\ resp[p][1].status = 200}) = 1
        /\ Cardinality({p \in Procs : resp[p] = <<DuplicateResponse>>}) = 1
        /\ Cardinality(releases) = 1
        /\ \A r \in releases :
              Cardinality({i \in 1..Len(r.artifacts) :
                              /\ r.artifacts[i].platform = "p1"
                              /\ r.artifacts[i].arch = "x1"
                              /\ r.artifacts[i].package = <<".", "dmg">>}) = 1

\* C7 witness: both uploads are over, the release was created by the task that put
\* its blob first and the blob holds the other task's file.
C7_Witness ==
    /\ \A p \in Procs : pc[p] = "done" /\ req[p].kind = "upload"
    /\ \E p \in Procs, o \in Procs :
          /\ resp[p] = <<Response(200, [uploadResult |-> 1])>>
          /\ resp[o] = <<DuplicateResponse>>
          /\ req[p].files # req[o].files
          /\ \A k \in DOMAIN blobs : blobs[k] = req[o].files[1]

\* C8: no two releases share the same (app_name, version, channel).
C8_ReleaseKeyUnique ==
    \A r1 \in releases, r2 \in releases : ReleaseKey(r1) = ReleaseKey(r2) => r1 = r2

\* C8 witness: after a successful rename, two releases differ in their channel only.
C8_Witness ==
    \E p \in Procs :
        /\ pc[p] = "done"
        /\ req[p].kind = "updateDim"
        /\ resp[p][1].status = 200
        /\ \E r1 \in releases, r2 \in releases :
              /\ r1.app_name = r2.app_name /\ r1.version = r2.version
              /\ r1.channel # r2.channel
              /\ req[p].new \in {r1.channel, r1.app_name}

LinksOf(rels) == UNION {{a.link : a \in Artifacts(r)} : r \in rels}

\* C11: when repository.Upload fails after the file's blob was put, the error is
\* surfaced and the blob of that file is no longer in the blob store (unless a release
\* links to it).
C11_FailedInsertRemovesBlob ==
    [][\A p \in Procs :
          (pc[p] = "meta" /\ work'[p].fault = "Upload")
          => LET link == work[p].links[Len(work[p].results) + 1]
             IN  /\ resp'[p] = Append(resp[p], Response(500, [error |-> MetadataErrMsg]))
                 /\ link \notin LinksOf(releases')
                       => \A k \in DOMAIN blobs' : LinkOfKey(k) # link]_vars

\* C12: when file k of an upload request fails, at its blob put or at its metadata
\* insert, every file before k has its blob in the blob store and its artifact in the
\* metadata store.
C12_EarlierFilesKept ==
    [][\A p \in Procs :
          (/\ pc[p] \in {"s3", "meta"}
           /\ pc'[p] = "done")
          => LET prm == req[p].params
                 k == IF pc[p] = "s3" THEN Len(work[p].links) + 1
                      ELSE Len(work[p].results) + 1
             IN  \A i \in 1..(k - 1) :
                    LET link == S3Link(prm.app_name, prm.version, req[p].files[i])
                    IN  /\ \E key \in DOMAIN blobs' : LinkOfKey(key) = link
                        /\ link \in LinksOf(releases')]_vars

\* ------------------------------------------------------------------ claims: cache

\* C13: when an upload request with publish=true that recorded at least one artifact
\* ends, no cache key matching app_name=a&version=*&channel=c&platform=*&arch=* is
\* left in the cache.
C13_PublishedUploadClearsCache ==
    [][\A p \in Procs :
          (/\ req[p].kind = "upload"
           /\ pc[p] \in {"meta", "finish"}
           /\ pc'[p] = "done"
           /\ performanceMode
           /\ req[p].params.publish
           /\ work[p].results # <<>>)
          => MatchingKeys(DOMAIN cache', req[p].params) = {}]_vars

\* C14: a step of an upload with publish=false, or with the cache flag off, leaves
\* the cache unchanged, and the last step of a successful upload with publish=true
\* and the flag on removes every key its pattern matches.
C14_InvalidationIffPublished ==
    [][\A p \in Procs :
          (req'[p].kind = "upload" /\ pc'[p] # pc[p])
          => /\ (~req'[p].params.publish \/ ~performanceMode) => cache' = cache
             /\ (/\ pc[p] = "finish"
                 /\ req[p].params.publish
                 /\ performanceMode)
                => /\ MatchingKeys(DOMAIN cache', req[p].params) = {}
                   /\ (DOMAIN cache) \ (DOMAIN cache')
                         = MatchingKeys(DOMAIN cache, req[p].params)]_vars

\* C14 witness: an unpublished upload succeeded with the cache flag on and a key of
\* its (app, channel) is still cached.
C14_Witness ==
    \E p \in Procs :
        /\ pc[p] = "done"
        /\ req[p].kind = "upload"
        /\ ~req[p].params.publish
        /\ performanceMode
        /\ Len(resp[p]) = 1 /\ resp[p][1].status = 200
        /\ MatchingKeys(DOMAIN cache, req[p].params) # {}

\* C15: when listing or deleting cache keys fails during the invalidation, the
\* releases and blobs written by the upload stay and the caller gets the success
\* response with the release identifier.
C15_CacheFailureNotSurfaced ==
    [][\A p \in Procs :
          (/\ pc[p] = "finish"
           /\ work'[p].fault \in {"Keys", "Del"}
           /\ work[p].results # <<>>)
          => /\ releases' = releases
             /\ blobs' = blobs
             /\ resp'[p] = <<Response(200, [uploadResult |-> work[p].results[1].id])>>
             /\ \E r \in releases' :
                   /\ r.id = work[p].results[1].id
                   /\ \A i \in 1..Len(work[p].links) :
                         /\ work[p].links[i] \in LinksOf({r})
                         /\ \E k \in DOMAIN blobs' : LinkOfKey(k) = work[p].links[i]]_vars

\* C15 witness: a published upload was answered 200 although a cache key of its
\* (app, channel) could not be deleted and is still cached.
C15_Witness ==
    \E p \in Procs :
        /\ pc[p] = "done"
        /\ req[p].kind = "upload"
        /\ work[p].fault = "Del"
        /\ Len(resp[p]) = 1 /\ resp[p][1].status = 200
        /\ MatchingKeys(DOMAIN cache, req[p].params) # {}
        /\ \E r \in releases : r.id = resp[p][1].body.uploadResult

\* ------------------------------------------------------------------ claims: dimensions

DimensionRequiredMsg(kind) ==
    CASE kind = "channel" -> <<"you have a created channels, setting channel is required">>
      [] kind = "platform" -> <<"you have a created platforms, setting platform is required">>
      [] kind = "arch" -> <<"you have a created archs, setting arch is required">>

\* task p takes the first step of an upload request
UploadStarts(p) ==
    /\ Idle(p)
    /\ req'[p].kind = "upload"
    /\ <<pc'[p], req'[p], resp'[p]>> # <<pc[p], req[p], resp[p]>>

\* C16: an upload that omits a dimension of which a record exists is answered 400
\* with the DimensionRequired text and writes nothing to the blob store, the metadata
\* store or the cache; an upload that omits only dimensions without records passes
\* the validation.
C16_DimensionGating ==
    [][\A p \in Procs :
          UploadStarts(p)
          => LET prm == req'[p].params
                 required == {k \in {"channel", "platform", "arch"} :
                                 prm[k] = "" /\ dims[k] # <<>>}
                 unknown == {k \in {"channel", "platform", "arch"} :
                                 prm[k] # "" /\ prm[k] \notin DimNames(dims, k)}
             IN  /\ required # {}
                    => /\ pc'[p] = "done"
                       /\ \E k \in required : resp'[p] =
                             <<Response(400, [error |-> DimensionRequiredMsg(k)])>>
                       /\ UNCHANGED <<dims, releases, nextId, blobs, cache>>
                 /\ (required = {} /\ unknown = {})
                    => /\ pc'[p] = "s3"
                       /\ resp'[p] = <<>>]_vars

\* C16 witness: an upload without channel was recorded while no channel existed, and
\* after a channel was created an upload without channel is answered 400.
C16_Witness ==
    \E p \in Procs :
        /\ pc[p] = "done"
        /\ req[p].kind = "upload"
        /\ req[p].params.channel = ""
        /\ resp[p] = <<Response(400, [error |-> DimensionRequiredMsg("channel")])>>
        /\ \E r \in releases : r.channel = ""
        /\ dims["channel"] # <<>>

\* task p handles a request of the given kind in this step
Handles(p, kind) ==
    /\ Idle(p)
    /\ req'[p].kind = kind
    /\ pc'[p] = "done"
    /\ <<req'[p], resp'[p]>> # <<req[p], resp[p]>> \/ pc[p] = "idle"

NamesUnique ==
    \A k \in Kinds : \A i \in 1..Len(dims[k]), j \in 1..Len(dims[k]) :
        dims[k][i] = dims[k][j] => i = j

\* C17: creating a dimension whose name exists for its kind fails with
\* '<kind> with this name already exists' and leaves the records unchanged, and in
\* every reachable state the names of a kind are pairwise different.
C17_DuplicateNameRejected ==
    /\ []NamesUnique
    /\ [][\A p \in Procs :
             Handles(p, "createDim")
             => LET k == req'[p].dim
                    n == req'[p].name
                IN  IF n \in DimNames(dims, k)
                    THEN /\ resp'[p] = <<Response(500, [error |-> DuplicateNameMsg(k)])>>
                         /\ dims' = dims
                    ELSE /\ resp'[p][1].status = 200
                         /\ dims' = [dims EXCEPT ![k] = Append(@, n)]]_vars

\* C17 witness: a create was answered DuplicateName and the name is listed once.
C17_Witness ==
    \E p \in Procs :
        /\ pc[p] = "done"
        /\ req[p].kind = "createDim"
        /\ resp[p] = <<Response(500, [error |-> DuplicateNameMsg(req[p].dim)])>>
        /\ Cardinality({i \in 1..Len(dims[req[p].dim]) :
                           dims[req[p].dim][i] = req[p].name}) = 1

\* C18: after a successful rename of a dimension from N to M the list of the kind
\* shows M in N's place and not N, every release that referenced N references M, no
\* release references N, and the releases that did not reference N are unchanged.
C18_RenameCascades ==
    [][\A p \in Procs :
          (Handles(p, "updateDim") /\ resp'[p][1].status = 200)
          => LET k == req'[p].dim
                 N == req'[p].old
                 M == req'[p].new
             IN  /\ M \in DimNames(dims', k)
                 /\ N \notin DimNames(dims', k)
                 /\ Len(dims'[k]) = Len(dims[k])
                 /\ \A i \in 1..Len(dims[k]) : dims[k][i] # N => dims'[k][i] = dims[k][i]
                 /\ \A o \in Kinds \ {k} : dims'[o] = dims[o]
                 /\ References(releases', k, N) = {}
                 /\ Cardinality(releases') = Cardinality(releases)
                 /\ \A r \in releases : \E r2 \in releases' :
                       /\ r2.id = r.id
                       /\ r \in References(releases, k, N)
                             => r2 \in References(releases', k, M)
                       /\ r \notin References(releases, k, N) => r2 = r]_vars

\* C18 witness: a rename succeeded, the new name is listed and a release references it.
C18_Witness ==
    \E p \in Procs :
        /\ pc[p] = "done"
        /\ req[p].kind = "updateDim"
        /\ resp[p] = <<Response(200, [Updated |-> TRUE])>>
        /\ req[p].new \in DimNames(dims, req[p].dim)
        /\ req[p].old \notin DimNames(dims, req[p].dim)
        /\ References(releases, req[p].dim, req[p].new) # {}
        /\ References(releases, req[p].dim, req[p].old) = {}

\* C20: deleting a dimension whose name a release references fails and leaves the
\* record in place; deleting an unreferenced dimension removes exactly that record
\* and answers DeletedCount 1.
C20_DeleteDimensionInUse ==
    [][\A p \in Procs :
          Handles(p, "deleteDim")
          => LET k == req'[p].dim
                 n == req'[p].name
             IN  /\ releases' = releases
                 /\ \A o \in Kinds \ {k} : dims'[o] = dims[o]
                 /\ IF \E r \in releases :
                          \/ k = "app" /\ r.app_name = n
                          \/ k = "channel" /\ r.channel = n
                          \/ \E i \in 1..Len(r.artifacts) :
                                \/ k = "platform" /\ r.artifacts[i].platform = n
                                \/ k = "arch" /\ r.artifacts[i].arch = n
                    THEN /\ resp'[p] = <<Response(500, [error |-> <<"failed to delete", k>>])>>
                         /\ dims' = dims
                    ELSE /\ resp'[p] = <<Response(200, [DeletedCount |-> 1])>>
                         /\ n \notin DimNames(dims', k)
                         /\ Len(dims'[k]) = Len(dims[k]) - 1
                         /\ DimNames(dims', k) = DimNames(dims, k) \ {n}]_vars

\* C20 witness: the delete of a channel a release references was refused and the
\* channel is still listed.
C20_Witness ==
    \E p \in Procs :
        /\ pc[p] = "done"
        /\ req[p].kind = "deleteDim"
        /\ req[p].dim = "channel"
        /\ resp[p] = <<Response(500, [error |-> <<"failed to delete", "channel">>])>>
        /\ req[p].name \in DimNames(dims, "channel")
        /\ \E r \in releases : r.channel = req[p].name

\* C19: a rename is atomic: in no state does the dimension list carry the new name
\* and not the old one while a release references the old name, or the reverse, and
\* a failed rename leaves the dimensions and the releases as they were.
C19_RenameAtomic ==
    /\ [](\A p \in Procs :
             (pc[p] = "done" /\ req[p].kind = "updateDim")
             => LET k == req[p].dim
                    N == req[p].old
                    M == req[p].new
                    names == DimNames(dims, k)
                IN  /\ ~(/\ M \in names /\ N \notin names
                         /\ References(releases, k, N) # {})
                    /\ ~(/\ N \in names /\ M \notin names
                         /\ References(releases, k, M) # {}))
    /\ [][\A p \in Procs :
             (Handles(p, "updateDim") /\ resp'[p][1].status # 200)
             => dims' = dims /\ releases' = releases]_vars

\* ------------------------------------------------------------------ claims: release delete

\* C21: when the delete of a release has been answered, the release is gone, the
\* answer reports DeletedCount 1, and no blob its artifacts linked to is left in the
\* blob store.
C21_DeleteRemovesBlobs ==
    \A p \in Procs :
        (/\ pc[p] = "done"
         /\ req[p].kind = "delete"
         /\ work[p].deleted # {}
         /\ work[p].fault = "none")
        => /\ resp[p] = <<Response(200, [DeletedCount |-> 1])>>
           /\ \A r \in releases : r.id # req[p].id
           /\ \A l \in work[p].deleted : \A k \in DOMAIN blobs : LinkOfKey(k) # l

\* ------------------------------------------------------------------ claims: store failures

\* C30: when the metadata-store call of a search or of a release delete has failed,
\* every response of the request is a 500 with an error field.
C30_StoreFailureSurfaces ==
    \A p \in Procs :
        (/\ pc[p] = "done"
         /\ req[p].kind \in {"search", "delete"}
         /\ work[p].fault \in {"GetAppByName", "DeleteApp"})
        => /\ resp[p] # <<>>
           /\ \A i \in 1..Len(resp[p]) :
                 resp[p][i].status = 500 /\ "error" \in DOMAIN resp[p][i].body

\* ------------------------------------------------------------------ claims: upload response

\* the number of upload results an UploadApp response carries
UploadResultCount(body) == IF "uploadResult" \in DOMAIN body THEN 1 ELSE 0

\* C29: the success response to an upload of n files carries n results.
C29_OneResultPerFile ==
    \A p \in Procs :
        (/\ pc[p] = "done"
         /\ req[p].kind = "upload"
         /\ resp[p] # <<>>
         /\ resp[p][Len(resp[p])].status = 200)
        => UploadResultCount(resp[p][Len(resp[p])].body) = Len(req[p].files)

\* ------------------------------------------------------------------ claims: changelog

\* the changes of the entries of the releases of a query's (app, channel) that are
\* newer than the client's version, newest first
RECURSIVE NewerChanges(_, _)
NewerChanges(rels, q) ==
    LET newer == {r \in rels : /\ r.app_name = q.app_name
                               /\ r.channel = q.channel
                               /\ r.published
                               /\ StrVersionLess(q.version, r.version)}
    IN  IF newer = {} THEN <<>>
        ELSE LET top == CHOOSE r \in newer :
                            \A o \in newer : ~StrVersionLess(r.version, o.version)
             IN  <<top.changelog[1].changes>> \o NewerChanges(rels \ {top}, q)

\* C27: a Check answer with update_available=true carries a changelog field holding
\* the changes of the entries newer than the client's version, newest first.
C27_CheckChangelogNewerOnly ==
    \A p \in Procs :
        (/\ pc[p] = "done"
         /\ req[p].kind = "check"
         /\ "update_available" \in DOMAIN resp[p][1].body
         /\ resp[p][1].body.update_available)
        => /\ "changelog" \in DOMAIN resp[p][1].body
           /\ resp[p][1].body.changelog = NewerChanges(releases, req[p].q)

\* ------------------------------------------------------------------ claims: release contents

\* no release holds two artifacts of the same (platform, arch, extension)
OneArtifactPerTuple ==
    \A r \in releases : \A i \in 1..Len(r.artifacts), j \in 1..Len(r.artifacts) :
        (/\ r.artifacts[i].platform = r.artifacts[j].platform
         /\ r.artifacts[i].arch = r.artifacts[j].arch
         /\ r.artifacts[i].package = r.artifacts[j].package) => i = j

\* C22: an upload of a new package extension for an existing (app_name, version,
\* channel) appends one artifact to that release, the number of releases stays, the
\* request is answered with that release's identifier, and no release ever holds two
\* artifacts of one (platform, arch, extension).
C22_NewPackageExtendsRelease ==
    /\ []OneArtifactPerTuple
    /\ [][\A p \in Procs :
             LET prm == req[p].params
                 i == Len(work[p].results) + 1
                 same == {r \in releases :
                             ReleaseKey(r) = <<prm.app_name, prm.version, prm.channel>>}
             IN  /\ (/\ pc[p] = "meta"
                     /\ Len(work'[p].results) = i
                     /\ same # {})
                    => /\ Cardinality(releases') = Cardinality(releases)
                       /\ \A r \in same : \E r2 \in releases' :
                             /\ r2.id = r.id
                             /\ r2.published = r.published /\ r2.critical = r.critical
                             /\ r2.artifacts = Append(r.artifacts,
                                   [platform |-> prm.platform, arch |-> prm.arch,
                                    package |-> work[p].extensions[i],
                                    link |-> work[p].links[i]])
                             /\ work'[p].results[i].id = r.id
                 /\ (/\ pc[p] = "finish"
                     /\ pc'[p] = "done"
                     /\ work[p].results # <<>>)
                    => \E r \in same :
                          resp'[p] = <<Response(200, [uploadResult |-> r.id])>>]_vars

\* C22 witness: a second request uploaded a .pkg for the release a first request had
\* created with a .dmg; it was answered with that release's identifier and the one
\* release holds both artifacts.
C22_Witness ==
    \E p \in Procs :
        /\ pc[p] = "done"
        /\ req[p].kind = "upload"
        /\ req[p].files = <<FilePkg>>
        /\ Cardinality(releases) = 1
        /\ \E r \in releases :
              /\ resp[p] = <<Response(200, [uploadResult |-> r.id])>>
              /\ Len(r.artifacts) = 2
              /\ r.artifacts[1].package = <<".", "dmg">>
              /\ r.artifacts[2].package = <<".", "pkg">>

\* the links of the unpublished releases of an app and channel
UnpublishedLinks(app, channel) ==
    UNION {{a.link : a \in Artifacts(r)} :
              r \in {x \in releases :
                        x.app_name = app /\ x.channel = channel /\ ~x.published}}

\* C23: a release with published=false is never returned by a Latest or a Check query,
\* while a search by app name returns every release of the app, unpublished ones
\* included, each with all of its artifacts.
C23_UnpublishedOnlyInSearch ==
    \A p \in Procs :
        /\ Answered(p, "latest") =>
              {e[5] : e \in resp[p][1].body.latest}
                  \cap UnpublishedLinks(req[p].q.app_name, req[p].q.channel) = {}
        /\ Answered(p, "check") =>
              {e[2] : e \in UrlEntries(resp[p][1].body)}
                  \cap UnpublishedLinks(req[p].q.app_name, req[p].q.channel) = {}
        /\ (Answered(p, "search") /\ work[p].fault = "none") =>
              /\ resp[p][1].status = 200
              /\ resp[p][1].body.apps = {r \in releases : r.app_name = req[p].app_name}

\* C23 witness: a search answer lists an unpublished release with its artifact.
C23_Witness ==
    \E p \in Procs :
        /\ Answered(p, "search")
        /\ \E r \in resp[p][1].body.apps :
              /\ r \in releases
              /\ ~r.published
              /\ r.artifacts # <<>>

\* C26: the changelog of every release holds at most one entry per version, and
\* exactly one for the release's own version however many packages were uploaded
\* for its (app_name, version, channel).
C26_OneChangelogEntryPerVersion ==
    \A r \in releases :
        /\ \A i \in 1..Len(r.changelog), j \in 1..Len(r.changelog) :
              r.changelog[i].version = r.changelog[j].version => i = j
        /\ Cardinality({i \in 1..Len(r.changelog) :
                           r.changelog[i].version = r.version}) = 1

\* C26 witness: a release was extended by a second upload and its changelog still
\* holds the one entry of its version.
C26_Witness ==
    \E r \in releases :
        /\ Len(r.artifacts) = 2
        /\ Len(r.changelog) = 1
        /\ r.changelog[1].version = r.version

\* the entries a Latest answer should hold for winner w: one per artifact of w for the
\* requested platform and arch, under channel, platform, arch and the extension
\* without its dot
BundleOf(w, q) ==
    {<<q.channel, q.platform, q.arch, Tail(a.package), a.link>> :
        a \in {x \in Artifacts(w) : /\ x.platform = q.platform
                                    /\ x.arch = q.arch
                                    /\ Len(x.package) > 0
                                    /\ Head(x.package) = "."}}

\* C28: a Latest answer holds exactly the winner's artifacts of the requested platform
\* and arch, nested as channel, platform, arch, extension with the extension key
\* stripped of its leading dot; the winner's artifacts for another platform or arch
\* never appear.
C28_LatestOnlyMatchingArtifacts ==
    \A p \in Procs :
        (Answered(p, "latest") /\ resp[p][1].body.latest # {}) =>
            LET q == req[p].q
                got == resp[p][1].body.latest
            IN  /\ \A e \in got :
                      /\ e[1] = q.channel /\ e[2] = q.platform /\ e[3] = q.arch
                      /\ e[4] # <<>> /\ Head(e[4]) # "."
                /\ \E w \in PublishedFor(q) :
                      /\ IsLargest(w, q)
                      /\ got = BundleOf(w, q)
                      /\ \A a \in Artifacts(w) :
                            (a.platform # q.platform \/ a.arch # q.arch)
                                => \A e \in got : <<e[2], e[3]>> # <<a.platform, a.arch>>

\* C28 witness: a Latest answer for one platform while the winner also holds an
\* artifact for another platform.
C28_Witness ==
    \E p \in Procs :
        /\ Answered(p, "latest")
        /\ resp[p][1].body.latest # {}
        /\ \E w \in PublishedFor(req[p].q) :
              /\ IsLargest(w, req[p].q)
              /\ \E a \in Artifacts(w) : a.platform # req[p].q.platform
              /\ resp[p][1].body.latest = BundleOf(w, req[p].q)

\* ------------------------------------------------------------------ claims: versions

\* the first component at which two parsed versions differ, 0 when there is none
FirstDifference(a, b) ==
    LET d == {i \in 1..4 : a[i] # b[i]}
    IN  IF d = {} THEN 0 ELSE CHOOSE i \in d : \A j \in d : i <= j

\* s is before t: at the first component where they differ s has the smaller integer
Before(s, t) ==
    LET a == ParseVersion(s)
        b == ParseVersion(t)
        i == FirstDifference(a, b)
    IN  i # 0 /\ a[i] < b[i]

\* the versions a state holds: those of the releases and of the Check being answered
KnownVersions ==
    {r.version : r \in releases}
        \cup {req[p].q.version : p \in {x \in Procs : req[x].kind = "check"}}

\* C24: the version comparison is the strict total order by the first differing
\* component taken as an integer (0.0.9.0 is before 0.0.10.0), two versions are equal
\* exactly when all four components are, and this order alone picks the release a
\* Latest or Check query is answered from.
C24_VersionOrderNumeric ==
    /\ \A s \in KnownVersions, t \in KnownVersions :
          /\ StrVersionLess(s, t) <=> Before(s, t)
          /\ (s = t) <=> (\A i \in 1..4 : ParseVersion(s)[i] = ParseVersion(t)[i])
          /\ (s = t) <=> (~StrVersionLess(s, t) /\ ~StrVersionLess(t, s))
          /\ ~(StrVersionLess(s, t) /\ StrVersionLess(t, s))
          /\ \A u \in KnownVersions :
                (StrVersionLess(s, t) /\ StrVersionLess(t, u)) => StrVersionLess(s, u)
    /\ \A p \in Procs :
          LET q == req[p].q
              top == {w \in PublishedFor(q) :
                         \A o \in PublishedFor(q) : o = w \/ Before(o.version, w.version)}
          IN  /\ (Answered(p, "latest") /\ PublishedFor(q) # {}) =>
                    \E w \in top : {e[5] : e \in resp[p][1].body.latest} = LinksFor(w, q)
              /\ (Answered(p, "check") /\ PublishedFor(q) # {}) =>
                    \E w \in top :
                       IF Before(w.version, q.version)
                       THEN resp[p][1].status = 500
                       ELSE /\ resp[p][1].status = 200
                            /\ resp[p][1].body.update_available = Before(q.version, w.version)
                            /\ Before(q.version, w.version) =>
                                  {e[2] : e \in UrlEntries(resp[p][1].body)} = LinksFor(w, q)

\* C24 witness: with 0.0.9.0 and 0.0.10.0 both published, a Latest query is answered
\* with 0.0.10.0 and a Check from 0.0.9.0 is told of an update.
C24_Witness ==
    /\ \E r \in releases : r.version = V9 /\ r.published
    /\ \E w \in releases :
          /\ w.version = V10 /\ w.published
          /\ \E p \in Procs :
                \/ /\ Answered(p, "latest")
                   /\ {e[5] : e \in resp[p][1].body.latest} = LinksFor(w, req[p].q)
                \/ /\ Answered(p, "check")
                   /\ req[p].q.version = V9
                   /\ resp[p][1].body.update_available = TRUE

\* the version a request carries
RequestVersion(r) ==
    IF r.kind = "upload" THEN r.params.version ELSE r.q.version

\* C25: an upload or Check whose version is not four dot-separated non-negative
\* integers is answered with the BadVersion error, and no step of its handling changes
\* the metadata store, the blob store or the cache.
C25_IllFormedVersionRejected ==
    /\ [](\A p \in Procs :
             (/\ pc[p] = "done"
              /\ req[p].kind \in {"upload", "check"}
              /\ ParseVersion(RequestVersion(req[p])) = <<>>)
             => /\ resp[p] # <<>>
                /\ \A i \in 1..Len(resp[p]) :
                      /\ resp[p][i].status # 200
                      /\ resp[p][i].body.error = BadVersionMsg)
    /\ [][\A p \in Procs :
             (/\ req'[p].kind \in {"upload", "check"}
              /\ ParseVersion(RequestVersion(req'[p])) = <<>>
              /\ <<pc'[p], req'[p], resp'[p], work'[p]>> # <<pc[p], req[p], resp[p], work[p]>>)
             => /\ releases' = releases
                /\ blobs' = blobs
                /\ cache' = cache
                /\ dims' = dims]_vars

\* ------------------------------------------------------------------ claims: blob keys

\* C35: the object key release delete hands to the blob store for an artifact link is
\* the key upload stored the blob under: every recorded link, with the endpoint
\* stripped as DeleteApp strips it, names an object of the blob store.
C35_DeleteKeyIsUploadKey ==
    \A r \in releases : \A a \in Artifacts(r) :
        (\E k \in DOMAIN blobs : LinkOfKey(k) = a.link)
            => /\ DeleteKey(a.link) \in DOMAIN blobs
               /\ LinkOfKey(DeleteKey(a.link)) = a.link

\* the tuple that identifies an artifact of a release
ArtifactTuple(r, a) == <<r.app_name, r.version, r.channel, a.platform, a.arch, a.package>>

\* C34: two artifacts that differ in any of (app_name, version, channel, platform,
\* arch, extension) are recorded with different links, hence stored under different
\* blob keys.
C34_DistinctArtifactsDistinctKeys ==
    \A r1 \in releases, r2 \in releases :
        \A a1 \in Artifacts(r1), a2 \in Artifacts(r2) :
            ArtifactTuple(r1, a1) # ArtifactTuple(r2, a2) => a1.link # a2.link

\* ------------------------------------------------------------------ claims: stale cache

\* the update URLs a stored or returned Check answer carries
AnswerLinks(answer) == {e[2] : e \in UrlEntries(answer.body)}

\* C33: no Check answered from the cache carries an update URL of an artifact that is
\* no longer in the metadata store, and between requests no cached answer refers to
\* a release that was deleted.
C33_NoStaleCachedAnswer ==
    /\ \A p \in Procs :
          (Answered(p, "cachedCheck") /\ req[p].hit)
              => AnswerLinks(resp[p][1]) \subseteq AllLinks
    /\ AllIdle => \A k \in DOMAIN cache : AnswerLinks(cache[k]) \subseteq AllLinks

\* ------------------------------------------------------------------ claims: rejected upload

\* C32: after an upload was rejected as a duplicate artifact, the blob of the recorded
\* artifact still has the content of the upload that recorded it (no release is ever
\* deleted here, so that upload is the first of its tuple).
C32_DuplicateKeepsBlob ==
    \A p \in Procs, o \in Procs :
        (/\ pc[p] = "done" /\ req[p].kind = "upload"
         /\ resp[p] = <<DuplicateResponse>>
         /\ pc[o] = "done" /\ req[o].kind = "upload"
         /\ Len(resp[o]) = 1 /\ resp[o][1].status = 200
         /\ req[o].params.app_name = req[p].params.app_name
         /\ req[o].params.version = req[p].params.version
         /\ S3Extension(req[o].files[1]) = S3Extension(req[p].files[1]))
        => LET key == S3Key(req[o].params.app_name, req[o].params.version,
                            req[o].files[1])
           IN  key \in DOMAIN blobs /\ blobs[key] = req[o].files[1]

\* ------------------------------------------------------------------ claims: update URLs

\* C37: a Check answer with update_available=true carries at least one
\* update_url_<ext> entry.
C37_UpdateCarriesUrl ==
    \A p \in Procs :
        (/\ Answered(p, "check")
         /\ resp[p][1].status = 200
         /\ resp[p][1].body.update_available = TRUE)
        => UrlEntries(resp[p][1].body) # {}

\* ------------------------------------------------------------------ claims: responses

\* C36: a request handled by upload, release delete, dimension delete, search or Check
\* gets exactly one response: never a second status and body, and one once the
\* handler has returned.
C36_ExactlyOneResponse ==
    \A p \in Procs :
        req[p].kind \in {"upload", "delete", "deleteDim", "search", "check", "cachedCheck"}
            => /\ Len(resp[p]) <= 1
               /\ pc[p] = "done" => Len(resp[p]) = 1

\* ------------------------------------------------------------------ claims: invalidation frame

\* the app_name and the channel a cache key was built from
KeyApp(k) == k[2]
KeyChannel(k) == k[Index(k, "&channel=") + 1]

\* the cache keys of an upload's app and channel
KeysOf(c, params) ==
    {k \in DOMAIN c : KeyApp(k) = params.app_name /\ KeyChannel(k) = params.channel}

\* C38: the invalidation at the end of an upload of (a, c) touches only cache keys of
\* app a and channel c: every other entry stays as it was, nothing is added, with no
\* key of (a, c) the cache is unchanged, and when deleting some keys fails every other
\* key of (a, c) is still deleted.
C38_InvalidationFrame ==
    [][\A p \in Procs :
          (pc[p] = "finish" /\ pc'[p] = "done")
          => LET mine == KeysOf(cache, req[p].params)
             IN  /\ \A k \in (DOMAIN cache) \ mine :
                       k \in DOMAIN cache' /\ cache'[k] = cache[k]
                 /\ \A k \in DOMAIN cache' :
                       k \in DOMAIN cache /\ cache'[k] = cache[k]
                 /\ mine = {} => cache' = cache
                 /\ work'[p].failed \subseteq mine
                 /\ (/\ performanceMode
                     /\ req[p].params.publish
                     /\ work'[p].fault # "Keys")
                    => (DOMAIN cache) \ (DOMAIN cache') = mine \ work'[p].failed]_vars

\* C38 witness: a published upload on one channel ended with one key of its app and
\* channel still cached because its deletion failed, another key of them deleted,
\* and a key of the other channel still cached.
C38_Witness ==
    \E p \in Procs :
        /\ pc[p] = "done"
        /\ req[p].kind = "upload"
        /\ work[p].fault = "Del"
        /\ \E k1 \in work[p].keys, k2 \in work[p].keys :
              /\ k1 \in work[p].failed /\ k1 \in DOMAIN cache
              /\ k2 \notin work[p].failed /\ k2 \notin DOMAIN cache
        /\ \E k \in DOMAIN cache : KeyChannel(k) # req[p].params.channel

\* ------------------------------------------------------------------ claims: notification

\* the notification task of an upload request
NoteOf(params, state) ==
    [app_name |-> params.app_name, channel |-> params.channel,
     version |-> params.version, state |-> state]

\* C31: a notification task is started only by the step that has written the success
\* response of an upload, its message goes out (or fails) in a later step of its own
\* that changes neither a response nor a store, and every notification belongs to an
\* upload that was recorded: a failed upload starts none.
C31_NotificationDetached ==
    /\ [](\A n \in notes : \E r \in releases :
             ReleaseKey(r) = <<n.app_name, n.version, n.channel>>)
    /\ [][/\ \A n \in notes' \ notes :
                n.state = "spawned" =>
                   \E p \in Procs :
                      /\ pc[p] = "finish" /\ pc'[p] = "done"
                      /\ req[p].kind = "upload"
                      /\ n = NoteOf(req[p].params, "spawned")
                      /\ Len(resp'[p]) = 1
                      /\ resp'[p][1].status = 200
          /\ \A n \in notes' \ notes :
                n.state # "spawned" =>
                   /\ [n EXCEPT !.state = "spawned"] \in notes
                   /\ UNCHANGED <<resp, pc, req, dims, releases, nextId, blobs, cache>>
          /\ \A p \in Procs :
                (/\ req'[p].kind = "upload"
                 /\ pc'[p] = "done"
                 /\ resp'[p] # resp[p]
                 /\ resp'[p][Len(resp'[p])].status # 200)
                => notes' = notes]_vars

\* C31 witness: the notification of an upload failed after the upload had been
\* answered 200; the response and the release are as they were.
C31_Witness ==
    \E p \in Procs :
        /\ pc[p] = "done"
        /\ req[p].kind = "upload"
        /\ Len(resp[p]) = 1
        /\ resp[p][1].status = 200
        /\ NoteOf(req[p].params, "failed") \in notes
        /\ \E r \in releases :
              /\ r.id = resp[p][1].body.uploadResult
              /\ ReleaseKey(r) = <<req[p].params.app_name, req[p].params.version,
                                   req[p].params.channel>>

====
